---- MODULE Spec2Model ----
(***************************************************************************)
(* Model of the BSB (Boiler-System-Bus) frame codec of the `bsb` crate:    *)
(* Frame construction, FrameSerializer::serialize, FrameParser::parse and  *)
(* a caller that drives the stateless parser over a growing byte buffer.   *)
(*                                                                         *)
(* A byte is a number 0..255.  A u32 is kept as its four big-endian bytes  *)
(* <<b0, b1, b2, b3>> (value b0*2^24 + b1*2^16 + b2*2^8 + b3), because the *)
(* model checker's integers are 32 bit signed and cannot hold every u32.   *)
(***************************************************************************)
EXTENDS Integers, Sequences, FiniteSets, TLC

\* ------------------------------------------------------------------------
\* Bytes, words and bit operations
\* ------------------------------------------------------------------------

Byte == 0..255

\* a AND b over n bits
RECURSIVE BitAnd(_, _, _)
BitAnd(a, b, n) ==
    IF n = 0 THEN 0
    ELSE ((a % 2) * (b % 2)) + 2 * BitAnd(a \div 2, b \div 2, n - 1)

\* a XOR b over n bits
RECURSIVE BitXor(_, _, _)
BitXor(a, b, n) ==
    IF n = 0 THEN 0
    ELSE ((a + b) % 2) + 2 * BitXor(a \div 2, b \div 2, n - 1)

\* a OR b over n bits
RECURSIVE BitOr(_, _, _)
BitOr(a, b, n) ==
    IF n = 0 THEN 0
    ELSE (IF (a % 2) + (b % 2) > 0 THEN 1 ELSE 0)
         + 2 * BitOr(a \div 2, b \div 2, n - 1)

\* u32 operators on big-endian byte quadruples
U32And(x, m) == [i \in 1..4 |-> BitAnd(x[i], m[i], 8)]
U32Or(x, y) == [i \in 1..4 |-> BitOr(x[i], y[i], 8)]
\* x >> 8
U32Shr8(x) == <<0, x[1], x[2], x[3]>>
\* x << 8 (the top byte is shifted out of the 32 bit word)
U32Shl8(x) == <<x[2], x[3], x[4], 0>>

Drop(s, n) == SubSeq(s, n + 1, Len(s))
Take(s, n) == SubSeq(s, 1, n)

\* ------------------------------------------------------------------------
\* CRC-16/XMODEM
\* ------------------------------------------------------------------------

\* the generator polynomial x^16 + x^12 + x^5 + 1
CrcPoly == 4129

\* one table entry: eight shift/xor rounds on the byte placed in the high half
RECURSIVE CrcRounds(_, _)
CrcRounds(crc, n) ==
    IF n = 0 THEN crc
    ELSE CrcRounds(IF crc >= 32768
                   THEN BitXor((crc * 2) % 65536, CrcPoly, 16)
                   ELSE (crc * 2) % 65536,
                   n - 1)

CrcTable == [b \in Byte |-> CrcRounds(b * 256, 8)]

\* crc = (crc << 8) ^ TABLE[(crc >> 8) ^ byte]
CrcUpdate(crc, byte) ==
    BitXor((crc % 256) * 256, CrcTable[BitXor(crc \div 256, byte, 8)], 16)

\* the update applied to bytes[lo..hi] in order.  The range is halved and the
\* running crc (a u16) is inspected at every step, so that the evaluation of
\* a long message stays shallow.
RECURSIVE CrcRange(_, _, _, _)
CrcRange(crc, bytes, lo, hi) ==
    IF crc \notin 0..65535 \/ lo > hi THEN crc
    ELSE IF lo = hi THEN CrcUpdate(crc, bytes[lo])
    ELSE LET mid == (lo + hi) \div 2
         IN  CrcRange(CrcRange(crc, bytes, lo, mid), bytes, mid + 1, hi)

\* crc16::State::<crc16::XMODEM>::calculate, initial value 0
Crc16Xmodem(bytes) == CrcRange(0, bytes, 1, Len(bytes))

\* ------------------------------------------------------------------------
\* Frame, PacketType
\* ------------------------------------------------------------------------

\* start of frame byte
SOF == 220

\* PacketType discriminants used by the codec
Set == 3
Get == 6

\* Frame::new: the five fields are stored as given, nothing is validated
New(destination_address, source_address, packet_type, field_id, payload) ==
    [destination_address |-> destination_address,
     source_address |-> source_address,
     packet_type |-> packet_type,
     field_id |-> field_id,
     payload |-> payload]

\* Frame::new_get: packet type Get, empty payload
NewGet(destination_address, source_address, field_id) ==
    New(destination_address, source_address, Get, field_id, <<>>)

\* Frame::new_set: packet type Set
NewSet(destination_address, source_address, field_id, payload) ==
    New(destination_address, source_address, Set, field_id, payload)

\* mutant of SwapFieldId: the middle two bytes are exchanged instead
SwapFieldIdMiddle(field_id) ==
    <<field_id[1], field_id[3], field_id[2], field_id[4]>>

\* (field_id & 0x0000_ffff) | ((field_id >> 8) & 0x00ff_0000)
\*                          | ((field_id << 8) & 0xff00_0000)
SwapFieldId(field_id) ==
    U32Or(U32Or(U32And(field_id, <<0, 0, 255, 255>>),
                U32And(U32Shr8(field_id), <<0, 255, 0, 0>>)),
          U32And(U32Shl8(field_id), <<255, 0, 0, 0>>))

\* ------------------------------------------------------------------------
\* FrameSerializer::serialize
\* ------------------------------------------------------------------------

\* header_length = payload.len() + 4 + 4 + 2 + 1
HeaderLength(frame) == Len(frame.payload) + 4 + 4 + 2 + 1

\* header_length.try_into().unwrap() panics unless the length fits a u8
SerializePanics(frame) == HeaderLength(frame) > 255

\* mutant of WireFieldId: the swap is applied to Set frames only
WireFieldIdSetOnly(frame) ==
    IF frame.packet_type = 3
    THEN SwapFieldId(frame.field_id)
    ELSE frame.field_id

\* the field id word handed to be_u32
WireFieldId(frame) ==
    IF frame.packet_type = 3 \/ frame.packet_type = 6
    THEN SwapFieldId(frame.field_id)
    ELSE frame.field_id

\* mutant of MessageWithoutChecksum: the source address is written as it is
MessageWithoutChecksumPlainSource(frame) ==
    <<SOF,
      frame.source_address,
      frame.destination_address,
      HeaderLength(frame),
      frame.packet_type>>
    \o WireFieldId(frame)
    \o frame.payload

\* the message without checksum, as generated into the buffer
MessageWithoutChecksum(frame) ==
    <<SOF,
      BitXor(frame.source_address, 128, 8),
      frame.destination_address,
      HeaderLength(frame),
      frame.packet_type>>
    \o WireFieldId(frame)
    \o frame.payload

\* be_u16
BeU16(word) == <<word \div 256, word % 256>>

Serialize(frame) ==
    LET message == MessageWithoutChecksum(frame)
    IN  message \o BeU16(Crc16Xmodem(message))

\* ------------------------------------------------------------------------
\* FrameParser::frame_parser (nom, streaming) and FrameParser::parse
\* ------------------------------------------------------------------------

NoFrame == [destination_address |-> 0 - 1,
            source_address |-> 0 - 1,
            packet_type |-> 0 - 1,
            field_id |-> <<>>,
            payload |-> <<>>]

\* nom::IResult values
NomOk(rest, frame) == [tag |-> "Ok", rest |-> rest, frame |-> frame, errors |-> <<>>]
NomIncomplete == [tag |-> "Incomplete", rest |-> <<>>, frame |-> NoFrame, errors |-> <<>>]
\* nom::Err::Error(VerboseError { errors })
NomError(errors) == [tag |-> "Error", rest |-> <<>>, frame |-> NoFrame, errors |-> errors]

\* verify(p, cond) failing inside context(ctx, ..) at `input`: the verify error
\* is recorded first, the context is pushed after it
ContextVerifyError(ctx, input) ==
    NomError(<<[input |-> input, kind |-> "Nom", what |-> "Verify"],
               [input |-> input, kind |-> "Context", what |-> ctx]>>)

HasSOF(data) == \E i \in 1..Len(data) : data[i] = SOF

\* index of the first SOF
FirstSOF(data) ==
    CHOOSE i \in 1..Len(data) :
        data[i] = SOF /\ \A j \in 1..(i - 1) : data[j] # SOF

\* mutant of TakeTillSOF: the bytes ahead of the SOF are not dropped
TakeTillSOFKeepsGarbage(data) == data

\* take_till(|b| b == SOF): the input from the first SOF on
TakeTillSOF(data) == Drop(data, FirstSOF(data) - 1)

\* mutant of BeU16Value: the checksum is read low byte first
BeU16ValueLittleEndian(input) == input[2] * 256 + input[1]

\* nom be_u16 on the first two bytes of the input
BeU16Value(input) == input[1] * 256 + input[2]

\* mutants of LengthOk: the upper bound is inclusive, the upper bound is
\* missing, the lower bound is exclusive
LengthOkInclusive(header_length) ==
    4 + 4 + 2 + 1 <= header_length /\ header_length <= 70
LengthOkNoUpperBound(header_length) == 4 + 4 + 2 + 1 <= header_length
LengthOkExclusiveLow(header_length) ==
    4 + 4 + 2 + 1 < header_length /\ header_length < 70

\* (4 + 4 + 2 + 1..70).contains(&header_length)
LengthOk(header_length) == 4 + 4 + 2 + 1 <= header_length /\ header_length < 70

\* the parser from packet_type on; `message` starts at the SOF, `input` after
\* the length byte
ParseBody(message, input, source_address, destination_address, header_length) ==
    LET payload_len == header_length - 4 - 4 - 2 - 1
    IN
    IF Len(input) < 1 THEN NomIncomplete
    ELSE
    LET packet_type == input[1]
        input5 == Drop(input, 1)
    IN
    IF Len(input5) < 4 THEN NomIncomplete
    ELSE
    LET word == Take(input5, 4)
        field_id == IF packet_type \in {Set, Get} THEN SwapFieldId(word) ELSE word
        input6 == Drop(input5, 4)
    IN
    IF Len(input6) < payload_len THEN NomIncomplete
    ELSE
    LET payload == Take(input6, payload_len)
        input7 == Drop(input6, payload_len)
        message_without_checksum == Take(message, header_length - 2)
        calculated_crc == Crc16Xmodem(message_without_checksum)
    IN
    IF Len(input7) < 2 THEN NomIncomplete
    ELSE IF BeU16Value(input7) # calculated_crc
    THEN ContextVerifyError("ChecksumError", input7)
    ELSE NomOk(Drop(input7, 2),
               New(destination_address, source_address, packet_type,
                   field_id, payload))

frame_parser(data) ==
    \* take_till(|b| b == SOF): streaming, so no SOF at all is Incomplete
    IF ~HasSOF(data) THEN NomIncomplete
    ELSE
    LET message == TakeTillSOF(data)
        input1 == Drop(message, 1)
    IN
    IF Len(input1) < 1 THEN NomIncomplete
    ELSE
    LET source_address == BitXor(input1[1], 128, 8)
        input2 == Drop(input1, 1)
    IN
    IF Len(input2) < 1 THEN NomIncomplete
    ELSE
    LET destination_address == input2[1]
        input3 == Drop(input2, 1)
    IN
    IF Len(input3) < 1 THEN NomIncomplete
    ELSE IF ~LengthOk(input3[1])
    THEN ContextVerifyError("InvalidLength", input3)
    ELSE ParseBody(message, Drop(input3, 1), source_address,
                   destination_address, input3[1])

\* ParseResult
ParseOk(rest, frame) ==
    [kind |-> "Ok", rest |-> rest, frame |-> frame,
     broken_data |-> <<>>, error |-> "None"]
ParseIncomplete ==
    [kind |-> "Incomplete", rest |-> <<>>, frame |-> NoFrame,
     broken_data |-> <<>>, error |-> "None"]
\* mutant of ParseFailure: a Failure carries no rest
ParseFailureNoRest(rest, broken_data, error) ==
    [kind |-> "Failure", rest |-> <<>>, frame |-> NoFrame,
     broken_data |-> broken_data, error |-> error]

ParseFailure(rest, broken_data, error) ==
    [kind |-> "Failure", rest |-> rest, frame |-> NoFrame,
     broken_data |-> broken_data, error |-> error]

\* mutant of LastError: the first recorded error is taken
FirstError(errors) == errors[1]

\* error.errors.last(): its input is the rest, its context names the error
LastError(errors) == errors[Len(errors)]

\* mutant of Parse: an input that is not yet a frame is a Failure
ParseIncompleteFails(input) ==
    LET r == frame_parser(input)
    IN  CASE r.tag = "Ok" -> ParseOk(r.rest, r.frame)
          [] r.tag = "Incomplete" -> ParseFailure(input, input, "InvalidLength")
          [] OTHER ->
               LET last == LastError(r.errors)
               IN  ParseFailure(last.input, input,
                                IF last.kind = "Context" THEN last.what
                                ELSE "unimplemented")

\* mutant of Parse: an Ok result reports the whole input as consumed
ParseDropsRest(input) ==
    LET r == frame_parser(input)
    IN  CASE r.tag = "Ok" -> ParseOk(<<>>, r.frame)
          [] r.tag = "Incomplete" -> ParseIncomplete
          [] OTHER ->
               LET last == LastError(r.errors)
               IN  ParseFailure(last.input, input,
                                IF last.kind = "Context" THEN last.what
                                ELSE "unimplemented")

Parse(input) ==
    LET r == frame_parser(input)
    IN  CASE r.tag = "Ok" -> ParseOk(r.rest, r.frame)
          [] r.tag = "Incomplete" -> ParseIncomplete
          [] OTHER ->
               LET last == LastError(r.errors)
               IN  ParseFailure(last.input, input,
                                IF last.kind = "Context" THEN last.what
                                ELSE "unimplemented")

\* ------------------------------------------------------------------------
\* The session: an application builds frames and serializes them onto the
\* bus; a receiver appends the bytes it reads to a buffer, calls
\* Frame::parse on the buffer and continues with the returned rest.
\* ------------------------------------------------------------------------

VARIABLES
    frame,      \* the Frame the sending application holds (NoFrame: none)
    wire,       \* bytes on the bus, not yet read by the receiver
    buffer,     \* the receiver's buffer, the input of the next parse call
    result,     \* the ParseResult of the last parse call (NoResult: none)
    sent,       \* the frames serialized so far, in order
    got,        \* the frames returned by parse so far, in order
    garbage,    \* number of garbage bytes put on the bus before the frames
    corrupted,  \* whether a byte on the bus was altered
    calls       \* the calls made to the value codec, with their results

frameVars == <<frame, wire, buffer, result, sent, got, garbage, corrupted>>
vars == <<frame, wire, buffer, result, sent, got, garbage, corrupted, calls>>

NoResult ==
    [kind |-> "None", rest |-> <<>>, frame |-> NoFrame,
     broken_data |-> <<>>, error |-> "None"]

\* the longest payload the parser's length check admits
MaxPayload == 70 - 1 - (4 + 4 + 2 + 1)

\* sampled inputs of the constructors.  Address 92 is written to the wire
\* as 92 XOR 128 = 220, an SOF byte inside the frame; the third field id has
\* its top bit set.  Packet type 7 is Ret.
Addresses == {0, 66, 92}
PacketTypes == {Set, Get, 7}
FieldIds == {<<0, 0, 0, 4>>, <<5, 61, 25, 240>>, <<240, 25, 61, 5>>}
Fill(n, b) == [i \in 1..n |-> b]
Payloads == {<<>>, <<5>>, <<0, 0, 15>>, Fill(MaxPayload, 1), Fill(MaxPayload + 1, 1)}

\* the bus of the streaming session: a controller (66) queries a heater (0)
BusDestinations == {0}
BusSources == {66}
BusFieldIds == {<<0, 0, 0, 4>>, <<5, 61, 25, 240>>}
BusPayloads == {<<1, 0>>}
GarbageBytes == {187}
NoiseBytes == {0, 10, 12, 69, 70, 220}

\* frames serialized in one session
MaxFrames == 2
\* garbage bytes ahead of the first frame
MaxGarbage == 1

Init ==
    /\ frame = NoFrame
    /\ wire = <<>>
    /\ buffer = <<>>
    /\ result = NoResult
    /\ sent = <<>>
    /\ got = <<>>
    /\ garbage = 0
    /\ corrupted = FALSE
    /\ calls = <<>>

\* --- the application: constructors -------------------------------------

Build(f) ==
    /\ frame = NoFrame
    /\ frame' = f
    /\ UNCHANGED <<wire, buffer, result, sent, got, garbage, corrupted, calls>>

\* Frame::new_get / Frame::new_set on the bus
BusNewGet ==
    \E dst \in BusDestinations, src \in BusSources, fid \in BusFieldIds :
        /\ Len(sent) < MaxFrames
        /\ Build(NewGet(dst, src, fid))

BusNewSet ==
    \E dst \in BusDestinations, src \in BusSources, fid \in BusFieldIds,
       payload \in BusPayloads :
        /\ Len(sent) < MaxFrames
        /\ Build(NewSet(dst, src, fid, payload))

\* Frame::new / new_get / new_set of a single frame, over all sampled inputs
CodecNew ==
    \E dst \in Addresses, src \in Addresses, pt \in PacketTypes,
       fid \in FieldIds, payload \in Payloads :
        /\ sent = <<>>
        /\ Build(New(dst, src, pt, fid, payload))

CodecNewGet ==
    \E dst \in Addresses, src \in Addresses, fid \in FieldIds :
        /\ sent = <<>>
        /\ Build(NewGet(dst, src, fid))

CodecNewSet ==
    \E dst \in Addresses, src \in Addresses, fid \in FieldIds,
       payload \in Payloads :
        /\ sent = <<>>
        /\ Build(NewSet(dst, src, fid, payload))

\* --- the application: frame.serialize(), written to the bus -------------
\* (a call that panics writes nothing; once a byte on the bus was altered
\* the session sends no further frame)

SerializeFrame ==
    /\ frame # NoFrame
    /\ ~SerializePanics(frame)
    /\ ~corrupted
    /\ wire' = wire \o Serialize(frame)
    /\ sent' = Append(sent, frame)
    /\ frame' = NoFrame
    /\ UNCHANGED <<buffer, result, got, garbage, corrupted, calls>>

\* --- the bus ------------------------------------------------------------

\* bytes that belong to no frame precede the first frame
Garbage ==
    \E b \in GarbageBytes :
        /\ sent = <<>>
        /\ garbage < MaxGarbage
        /\ wire' = Append(wire, b)
        /\ garbage' = garbage + 1
        /\ UNCHANGED <<frame, buffer, result, sent, got, corrupted, calls>>

\* one byte on the bus is altered, once per session, while the first frame
\* (with the garbage ahead of it) is in transit and nothing was read yet
Corrupt ==
    \E i \in 1..Len(wire), b \in NoiseBytes :
        /\ ~corrupted
        /\ Len(sent) = 1
        /\ buffer = <<>>
        /\ got = <<>>
        /\ wire[i] # b
        /\ wire' = [wire EXCEPT ![i] = b]
        /\ corrupted' = TRUE
        /\ UNCHANGED <<frame, buffer, result, sent, got, garbage, calls>>

\* --- the receiver -------------------------------------------------------

\* read n bytes from the bus and append them to the buffer
Deliver ==
    \E n \in 1..Len(wire) :
        /\ result.kind \in {"None", "Incomplete"}
        /\ buffer' = buffer \o Take(wire, n)
        /\ wire' = Drop(wire, n)
        /\ result' = NoResult
        /\ UNCHANGED <<frame, sent, got, garbage, corrupted, calls>>

\* Frame::parse(&buffer)
ParseBuffer ==
    /\ result = NoResult
    /\ result' = Parse(buffer)
    /\ got' = IF result'.kind = "Ok" THEN Append(got, result'.frame) ELSE got
    /\ UNCHANGED <<frame, wire, buffer, sent, garbage, corrupted, calls>>

\* after Ok or Failure the caller continues with the returned rest
Advance ==
    /\ result.kind \in {"Ok", "Failure"}
    /\ buffer' = result.rest
    /\ result' = NoResult
    /\ UNCHANGED <<frame, wire, sent, got, garbage, corrupted, calls>>

Next ==
    \/ BusNewGet
    \/ BusNewSet
    \/ SerializeFrame
    \/ Garbage
    \/ Corrupt
    \/ Deliver
    \/ ParseBuffer
    \/ Advance

\* the streaming session
Spec == Init /\ [][Next]_vars

CodecNext ==
    \/ CodecNew
    \/ CodecNewGet
    \/ CodecNewSet
    \/ SerializeFrame
    \/ Deliver
    \/ ParseBuffer
    \/ Advance

\* a single frame is built, serialized, read and parsed
SpecCodec == Init /\ [][CodecNext]_vars

\* ------------------------------------------------------------------------
\* Properties
\* ------------------------------------------------------------------------

\* a frame the parser's length check admits
WellFormed(f) == Len(f.payload) <= MaxPayload

\* the input with its leading non-SOF bytes discarded
RECURSIVE StripGarbage(_)
StripGarbage(s) ==
    IF s = <<>> \/ s[1] = SOF THEN s ELSE StripGarbage(Tail(s))

Zeros(n) == [i \in 1..n |-> 0]

\* the bus holds exactly the output of one serialize call
FreshlySerialized ==
    /\ Len(sent) = 1
    /\ buffer = <<>>
    /\ got = <<>>
    /\ garbage = 0
    /\ ~corrupted
    /\ result = NoResult

\* the in-memory field id that belongs to four wire bytes: the first two
\* bytes exchanged for Set and Get, plain big-endian otherwise
FieldIdFromWire(b, packet_type) ==
    IF packet_type \in {3, 6} THEN <<b[2], b[1], b[3], b[4]>> ELSE b

\* the reading of the byte order with the middle two bytes exchanged
FieldIdFromWireMiddle(b, packet_type) ==
    IF packet_type \in {3, 6} THEN <<b[1], b[3], b[2], b[4]>> ELSE b

\* C1: frame round-trip.  When the buffer holds exactly the serialization of
\* a well-formed frame f (payload of 0..58 bytes), parse returns Ok, the
\* frame equals f and the rest is empty.
C1_FrameRoundTrip ==
    (/\ Len(sent) = 1
     /\ WellFormed(sent[1])
     /\ result # NoResult
     /\ buffer = Serialize(sent[1]))
    => (/\ result.kind = "Ok"
        /\ result.frame = sent[1]
        /\ result.rest = <<>>)

\* C1 witness: a Get frame with the longest admitted payload and a field id
\* of four different bytes went through serialize and parse
C1_Witness ==
    /\ Len(sent) = 1
    /\ result.kind = "Ok"
    /\ buffer = Serialize(sent[1])
    /\ Len(sent[1].payload) = MaxPayload
    /\ sent[1].packet_type = Get
    /\ sent[1].field_id = <<5, 61, 25, 240>>

\* C2 (as amended): for packet type Set(3) or Get(6) the wire bytes
\* b0 b1 b2 b3 of the field id parse to the big-endian word [b1, b0, b2, b3]
\* (the FIRST two bytes are exchanged) and the serializer writes the same
\* permutation; every other packet type uses plain big-endian.
C2_FieldIdByteOrder ==
    /\ result.kind = "Ok" =>
         LET message == StripGarbage(buffer)
         IN  result.frame.field_id =
                 FieldIdFromWire(SubSeq(message, 6, 9), message[5])
    /\ FreshlySerialized =>
         sent[1].field_id =
             FieldIdFromWire(SubSeq(wire, 6, 9), sent[1].packet_type)

\* C2 witness: a Get frame whose field id bytes differ was parsed
C2_Witness ==
    /\ result.kind = "Ok"
    /\ buffer[5] = Get
    /\ SubSeq(buffer, 6, 9) = <<61, 5, 25, 240>>
    /\ result.frame.field_id = <<5, 61, 25, 240>>

\* C2 as stated: the middle two bytes are exchanged, [b0, b2, b1, b3]
C2_Original ==
    /\ result.kind = "Ok" =>
         LET message == StripGarbage(buffer)
         IN  result.frame.field_id =
                 FieldIdFromWireMiddle(SubSeq(message, 6, 9), message[5])
    /\ FreshlySerialized =>
         sent[1].field_id =
             FieldIdFromWireMiddle(SubSeq(wire, 6, 9), sent[1].packet_type)

\* C10 as stated: every serialized frame built through the constructors is
\* at most 69 bytes long, carries its length at offset 3 and passes the
\* parser's length check.
C10_SerializedLengthLimit ==
    FreshlySerialized =>
        (/\ Len(wire) <= 69
         /\ wire[4] = Len(wire)
         /\ Parse(wire).error # "InvalidLength")

\* C3: length check and its ordering.  When the first SOF of the input is
\* followed by at least 3 more bytes, parse returns Failure with
\* InvalidLength exactly when the length byte (offset 3 from the SOF) is
\* below 11 or at least 70, whatever follows the length byte.
C3_LengthCheck ==
    LET message == StripGarbage(buffer)
    IN  (result # NoResult /\ Len(message) >= 4)
        => ((result.kind = "Failure" /\ result.error = "InvalidLength")
            <=> (message[4] < 11 \/ message[4] >= 70))

\* C3 witness: a length byte of 70 followed by the rest of a frame was
\* rejected
C3_Witness ==
    LET message == StripGarbage(buffer)
    IN  /\ Len(message) >= 11
        /\ message[4] = 70
        /\ result.kind = "Failure"
        /\ result.error = "InvalidLength"

\* C4: checksum check.  When the input starts at an SOF, its length byte L
\* is in 11..69 and at least L bytes are present, parse returns Ok exactly
\* when bytes L-2 and L-1 are the big-endian CRC-16/XMODEM of bytes 0..L-2,
\* and Failure with ChecksumError otherwise.
C4_ChecksumCheck ==
    (/\ result # NoResult
     /\ Len(buffer) >= 4
     /\ buffer[1] = SOF
     /\ buffer[4] \in 11..69
     /\ Len(buffer) >= buffer[4])
    => LET L == buffer[4]
           crc == Crc16Xmodem(SubSeq(buffer, 1, L - 2))
       IN  IF buffer[L - 1] = crc \div 256 /\ buffer[L] = crc % 256
           THEN result.kind = "Ok"
           ELSE result.kind = "Failure" /\ result.error = "ChecksumError"

\* C4 witness: a complete candidate frame with a wrong checksum was parsed
C4_Witness ==
    /\ Len(buffer) >= 4
    /\ buffer[1] = SOF
    /\ buffer[4] \in 11..69
    /\ Len(buffer) >= buffer[4]
    /\ result.kind = "Failure"
    /\ result.error = "ChecksumError"

\* C5: resync on leading garbage.  For an input g ++ x, g non-empty and
\* without SOF, x starting with an SOF, parse gives the same variant, frame,
\* error kind and rest as parse(x).
C5_Resync ==
    LET x == StripGarbage(buffer)
    IN  (result # NoResult /\ x # <<>> /\ x # buffer)
        => LET r == Parse(x)
           IN  /\ result.kind = r.kind
               /\ result.frame = r.frame
               /\ result.error = r.error
               /\ result.rest = r.rest

\* C5 witness: a frame behind garbage was parsed, with bytes left over
C5_Witness ==
    /\ buffer # <<>>
    /\ buffer[1] # SOF
    /\ result.kind = "Ok"
    /\ result.rest # <<>>

\* the well-formed completion of an input that parse found Incomplete:
\* a missing header is filled with zero addresses and length 11, missing
\* body bytes with zeros, then the checksum of the first L-2 bytes follows
PaddedFrame(x) ==
    LET header == IF x = <<>> THEN <<SOF, 0, 0, 11>>
                  ELSE IF Len(x) < 4 THEN x \o Zeros(3 - Len(x)) \o <<11>>
                  ELSE x
        L == header[4]
        body == IF Len(header) < L - 2
                THEN header \o Zeros(L - 2 - Len(header))
                ELSE SubSeq(header, 1, L - 2)
    IN  body \o BeU16(Crc16Xmodem(body))

\* bytes can be appended to the input so that the next parse returns Ok
CanComplete(input) ==
    LET x == StripGarbage(input)
        full == PaddedFrame(x)
    IN  \/ Parse(input \o SubSeq(full, Len(x) + 1, Len(full))).kind = "Ok"
        \/ \E c \in Byte : Parse(input \o <<c>>).kind = "Ok"

\* exactly the last byte is missing and the first checksum byte is wrong
FirstCrcByteWrong(x) ==
    /\ Len(x) >= 4
    /\ Len(x) = x[4] - 1
    /\ x[Len(x)] # Crc16Xmodem(SubSeq(x, 1, x[4] - 2)) \div 256

\* C6 (as amended): whenever parse returns Incomplete, the input without its
\* leading non-SOF bytes is shorter than 4 bytes or has a length byte L in
\* 11..69 and fewer than L bytes; bytes can be appended so that the next
\* parse returns Ok, except when exactly L-1 bytes are present and the first
\* checksum byte already differs from the checksum of the first L-2 bytes.
C6_IncompleteIsPrefix ==
    result.kind = "Incomplete" =>
        LET x == StripGarbage(buffer)
        IN  /\ Len(x) < 4 \/ (x[4] \in 11..69 /\ Len(x) < x[4])
            /\ FirstCrcByteWrong(x) \/ CanComplete(buffer)

\* C6 witness: an altered frame, cut inside its body, was found Incomplete
\* and can still be completed
C6_Witness ==
    /\ result.kind = "Incomplete"
    /\ corrupted
    /\ Len(StripGarbage(buffer)) >= 9
    /\ CanComplete(buffer)

\* C6 as stated: whenever parse returns Incomplete, bytes can be appended so
\* that the next parse returns Ok
C6_Original ==
    result.kind = "Incomplete" => CanComplete(buffer)

\* C7: every proper prefix (the empty one included) of the serialization of
\* a well-formed frame parses to Incomplete.
C7_ProperPrefixIncomplete ==
    (/\ Len(sent) = 1
     /\ WellFormed(sent[1])
     /\ got = <<>>
     /\ garbage = 0
     /\ ~corrupted
     /\ result # NoResult
     /\ Len(buffer) < Len(Serialize(sent[1]))
     /\ buffer = SubSeq(Serialize(sent[1]), 1, Len(buffer)))
    => result.kind = "Incomplete"

\* C7 witness: only the last byte of a frame with the longest admitted
\* payload was missing
C7_Witness ==
    /\ Len(sent) = 1
    /\ Len(sent[1].payload) = MaxPayload
    /\ Len(buffer) = Len(Serialize(sent[1])) - 1
    /\ buffer = SubSeq(Serialize(sent[1]), 1, Len(buffer))
    /\ result.kind = "Incomplete"

\* the serializations of frames[k..] back to back
RECURSIVE ConcatSerialized(_, _)
ConcatSerialized(frames, k) ==
    IF k > Len(frames) THEN <<>>
    ELSE Serialize(frames[k]) \o ConcatSerialized(frames, k + 1)

\* C8: wire order.  Over the concatenated serializations of well-formed
\* frames f1..fn, parsing and continuing with the returned rest yields
\* Ok(f1), Ok(f2), .. in that order; after the i-th Ok the rest (with the
\* bytes still on the bus) is the serializations of f(i+1)..fn.
C8_WireOrder ==
    (/\ garbage = 0
     /\ ~corrupted
     /\ \A i \in 1..Len(sent) : WellFormed(sent[i]))
    => (/\ Len(got) <= Len(sent)
        /\ got = SubSeq(sent, 1, Len(got))
        /\ result.kind # "Failure"
        /\ result.kind = "Ok" =>
             (/\ result.frame = sent[Len(got)]
              /\ result.rest \o wire = ConcatSerialized(sent, Len(got) + 1)))

\* C8 witness: two different frames were in the buffer back to back, the
\* first was returned and the rest is the second
C8_Witness ==
    /\ garbage = 0
    /\ ~corrupted
    /\ Len(sent) = 2
    /\ sent[1] # sent[2]
    /\ Len(got) = 1
    /\ wire = <<>>
    /\ result.kind = "Ok"
    /\ result.rest = Serialize(sent[2])

\* C9: shape of a Failure.  broken_data is the whole input, leading garbage
\* included; rest is a proper suffix of the input that starts at the length
\* byte for InvalidLength and at the first checksum byte for ChecksumError.
C9_FailureShape ==
    result.kind = "Failure" =>
        LET x == StripGarbage(buffer)
            g == Len(buffer) - Len(x)
        IN  /\ result.broken_data = buffer
            /\ Len(result.rest) < Len(buffer)
            /\ \/ /\ result.error = "InvalidLength"
                  /\ result.rest = SubSeq(buffer, g + 4, Len(buffer))
               \/ /\ result.error = "ChecksumError"
                  /\ result.rest = SubSeq(buffer, g + x[4] - 1, Len(buffer))

\* C9 witness: a checksum failure on a frame behind leading garbage
C9_Witness ==
    /\ result.kind = "Failure"
    /\ result.error = "ChecksumError"
    /\ buffer[1] # SOF
    /\ result.broken_data = buffer

\* ======================================================================
\* The value codec: value.rs (Value) and typed_value.rs (TypedValue)
\* ======================================================================

\* ----------------------------------------------------------------------
\* f32 arithmetic as the value codec uses it.  A finite f32 is
\* (-1)^s * m * 2^e with m = 0 or 2^23 <= m < 2^24; "inf" and "nan" arise
\* from a division factor of 0.  Results are rounded to nearest, ties to
\* even, as IEEE 754 does.  Subnormals and overflow are outside the sampled
\* magnitudes (2^-100 < |x| < 2^24).
\* ----------------------------------------------------------------------
F32Zero(s) == [kind |-> "finite", s |-> s, m |-> 0, e |-> 0]
F32Inf(s) == [kind |-> "inf", s |-> s, m |-> 0, e |-> 0]
F32NaN == [kind |-> "nan", s |-> 0, m |-> 0, e |-> 0]
F32Finite(s, m, e) == [kind |-> "finite", s |-> s, m |-> m, e |-> e]

\* the f32 nearest to (q * den + r) / den * 2^e, for 0 <= r < den < 2^30 and q < 2^24
RECURSIVE F32Round(_, _, _, _, _)
F32Round(s, q, r, den, e) ==
    IF (q = 0 /\ r = 0) \/ e < 0 - 100 THEN F32Zero(s)
    ELSE IF q < 2^23
         THEN F32Round(s, 2 * q + (IF 2 * r >= den THEN 1 ELSE 0), (2 * r) % den, den, e - 1)
         ELSE LET up == 2 * r > den \/ (2 * r = den /\ q % 2 = 1)
                  m == IF up THEN q + 1 ELSE q
              IN  IF m = 2^24 THEN F32Finite(s, 2^23, e + 1) ELSE F32Finite(s, m, e)

\* the f32 nearest to num / den, for 0 <= num, 0 < den < 2^30, num / den < 2^24
F32Ratio(s, num, den) == F32Round(s, num \div den, num % den, den, 0)

\* i16 as f32 / factor as f32 (both conversions are exact)
F32DivFactor(n, factor) ==
    LET s == IF n < 0 THEN 1 ELSE 0
        a == IF n < 0 THEN 0 - n ELSE n
    IN  IF factor = 0 THEN (IF n = 0 THEN F32NaN ELSE F32Inf(s))
        ELSE F32Ratio(s, a, factor)

\* number of binary digits of n
RECURSIVE BitLen(_)
BitLen(n) == IF n = 0 THEN 0 ELSE 1 + BitLen(n \div 2)

\* value * f32::from(factor): the exact product m * factor has up to 32 bits
\* and is held as hi * 2^12 + lo before it is rounded to 24 bits
F32MulFactor(x, factor) ==
    IF x.kind = "nan" THEN F32NaN
    ELSE IF x.kind = "inf" THEN (IF factor = 0 THEN F32NaN ELSE x)
    ELSE IF x.m = 0 \/ factor = 0 THEN F32Zero(x.s)
    ELSE LET low == (x.m % 4096) * factor
             hi == (x.m \div 4096) * factor + low \div 4096
             lo == low % 4096
             shift == BitLen(hi) - 12
             tail == (hi % 2^shift) * 4096 + lo
         IN  F32Round(x.s, (hi \div 2^shift) * 4096 + tail \div 2^shift,
                      tail % 2^shift, 2^shift, x.e + shift)

\* `x as u16`: truncates toward zero, saturates at the bounds, NaN is 0
F32AsU16(x) ==
    IF x.kind = "nan" THEN 0
    ELSE IF x.kind = "inf" THEN (IF x.s = 1 THEN 0 ELSE 65535)
    ELSE IF x.s = 1 \/ x.m = 0 \/ x.e < 0 - 24 THEN 0
    ELSE IF x.e >= 0 THEN 65535
    ELSE LET t == x.m \div 2^(0 - x.e)
         IN  IF t > 65535 THEN 65535 ELSE t

\* f32 == f32: NaN equals nothing, the two zeros are equal
F32Eq(x, y) ==
    /\ x.kind # "nan" /\ y.kind # "nan"
    /\ \/ x = y
       \/ x.kind = "finite" /\ y.kind = "finite" /\ x.m = 0 /\ y.m = 0

\* ----------------------------------------------------------------------
\* Text.  A text is a sequence of one-character strings.
\* ----------------------------------------------------------------------
DigitChars == <<"0", "1", "2", "3", "4", "5", "6", "7", "8", "9">>
IsDigit(ch) == \E i \in 1..10 : DigitChars[i] = ch
DigitValue(ch) == (CHOOSE i \in 1..10 : DigitChars[i] = ch) - 1

\* Display of an unsigned integer: decimal, no leading zeros
RECURSIVE UIntText(_)
UIntText(n) ==
    IF n < 10 THEN <<DigitChars[n + 1]>>
    ELSE UIntText(n \div 10) \o <<DigitChars[(n % 10) + 1]>>

\* n written with exactly width digits
RECURSIVE PaddedText(_, _)
PaddedText(n, width) ==
    IF width = 0 THEN <<>>
    ELSE PaddedText(n \div 10, width - 1) \o <<DigitChars[(n % 10) + 1]>>

\* the value of a run of digits, or limit + 1 as soon as it exceeds limit
RECURSIVE DigitsValue(_, _, _)
DigitsValue(text, acc, limit) ==
    IF acc > limit THEN limit + 1
    ELSE IF text = <<>> THEN acc
    ELSE DigitsValue(Tail(text), 10 * acc + DigitValue(Head(text)), limit)

Ok(v) == [ok |-> TRUE, value |-> v, error |-> "None"]
Err(e) == [ok |-> FALSE, value |-> 0, error |-> e]

\* str::parse::<u8>() and ::<u16>(): an optional '+', then one or more
\* digits whose value fits the type
ParseUInt(text, limit) ==
    LET digits == IF text # <<>> /\ Head(text) = "+" THEN Tail(text) ELSE text
    IN  IF digits = <<>> \/ \E i \in 1..Len(digits) : ~IsDigit(digits[i])
        THEN Err("ParseIntError")
        ELSE IF DigitsValue(digits, 0, limit) > limit THEN Err("ParseIntError")
        ELSE Ok(DigitsValue(digits, 0, limit))

\* the position of the first ch in text, 0 if there is none
FindChar(text, ch) ==
    IF \E i \in 1..Len(text) : text[i] = ch
    THEN CHOOSE i \in 1..Len(text) : text[i] = ch /\ \A j \in 1..(i - 1) : text[j] # ch
    ELSE 0

\* str::split_once(ch)
SplitOnce(text, ch) ==
    LET i == FindChar(text, ch)
    IN  IF i = 0 THEN [found |-> FALSE, left |-> <<>>, right |-> <<>>]
        ELSE [found |-> TRUE, left |-> Take(text, i - 1), right |-> Drop(text, i)]

\* str::split(ch): one or more pieces, the empty text gives one empty piece
RECURSIVE Split(_, _)
Split(text, ch) ==
    LET i == FindChar(text, ch)
    IN  IF i = 0 THEN <<text>>
        ELSE <<Take(text, i - 1)>> \o Split(Drop(text, i), ch)

\* [T]::join(sep)
RECURSIVE Join(_, _)
Join(pieces, sep) ==
    IF pieces = <<>> THEN <<>>
    ELSE IF Len(pieces) = 1 THEN pieces[1]
    ELSE pieces[1] \o sep \o Join(Tail(pieces), sep)

\* ----------------------------------------------------------------------
\* f32 text.  Display writes the shortest decimal that parses back to the
\* same f32, without exponent; parse rounds the decimal to the nearest f32.
\* Covered: decimals of at most 9 digits and 9 fraction digits, which
\* holds every sampled magnitude (2^-18 <= |x| < 2^24).
\* ----------------------------------------------------------------------
Pow10(k) == 10^k

\* the fraction of |x| below the binary point is (rh * 2^l + rl) / 2^(h + l)
F32FracLow(x) == IF 0 - x.e < 14 THEN 0 - x.e ELSE 14
F32FracHigh(x) == IF 0 - x.e < 14 THEN 0 ELSE 0 - x.e - 14

\* the integer nearest to |x| * 10^k (ties to even), digit by digit:
\* c holds the digits so far, rh and rl the remaining fraction
RECURSIVE F32ScaledDigits(_, _, _, _, _, _)
F32ScaledDigits(c, rh, rl, h, l, k) ==
    IF c < 0 THEN c
    ELSE IF k = 0
    THEN LET half == IF h > 0 THEN rh >= 2^(h - 1) ELSE l > 0 /\ rl >= 2^(l - 1)
             tie == IF h > 0 THEN rh = 2^(h - 1) /\ rl = 0 ELSE l > 0 /\ rl = 2^(l - 1)
         IN  IF half /\ (~tie \/ c % 2 = 1) THEN c + 1 ELSE c
    ELSE LET low == rl * 10
             high == rh * 10 + low \div 2^l
         IN  F32ScaledDigits(c * 10 + high \div 2^h, high % 2^h, low % 2^l, h, l, k - 1)

F32Scaled(x, k) ==
    IF x.m = 0 THEN 0
    ELSE IF x.e >= 0 THEN x.m * 2^x.e * Pow10(k)
    ELSE LET l == F32FracLow(x)
             h == F32FracHigh(x)
             int == IF 0 - x.e >= 24 THEN 0 ELSE x.m \div 2^(0 - x.e)
         IN  F32ScaledDigits(int, (x.m \div 2^l) % 2^h, x.m % 2^l, h, l, k)

\* the least number of fraction digits with which |x| survives the round trip
RECURSIVE F32ShortestDigits(_, _)
F32ShortestDigits(x, k) ==
    IF k >= 9 \/ F32Ratio(x.s, F32Scaled(x, k), Pow10(k)) = x THEN k
    ELSE F32ShortestDigits(x, k + 1)

\* impl Display for f32
F32Text(x) ==
    IF x.kind = "nan" THEN <<"N", "a", "N">>
    ELSE LET sign == IF x.s = 1 THEN <<"-">> ELSE <<>>
         IN  IF x.kind = "inf" THEN sign \o <<"i", "n", "f">>
             ELSE LET k == F32ShortestDigits(x, 0)
                      c == F32Scaled(x, k)
                  IN  sign \o UIntText(c \div Pow10(k))
                           \o (IF k = 0 THEN <<>> ELSE <<".">> \o PaddedText(c % Pow10(k), k))

\* str::parse::<f32>(): an optional sign, then "inf", "infinity", "nan"
\* (in the spellings Display produces) or digits with at most one '.' and
\* at least one digit.  Exponents are not produced by Display and are not
\* among the sampled texts.
ParseF32(text) ==
    LET signed == text # <<>> /\ Head(text) \in {"+", "-"}
        s == IF text # <<>> /\ Head(text) = "-" THEN 1 ELSE 0
        body == IF signed THEN Tail(text) ELSE text
        dot == FindChar(body, ".")
        whole == IF dot = 0 THEN body ELSE Take(body, dot - 1)
        frac == IF dot = 0 THEN <<>> ELSE Drop(body, dot)
        digits == whole \o frac
    IN  IF body \in {<<"i", "n", "f">>, <<"i", "n", "f", "i", "n", "i", "t", "y">>}
        THEN Ok(F32Inf(s))
        ELSE IF body \in {<<"N", "a", "N">>, <<"n", "a", "n">>} THEN Ok(F32NaN)
        ELSE IF digits = <<>> \/ \E i \in 1..Len(digits) : ~IsDigit(digits[i])
        THEN Err("ParseFloatError")
        ELSE Ok(F32Ratio(s, DigitsValue(digits, 0, Pow10(9) - 1), Pow10(Len(frac))))

\* ----------------------------------------------------------------------
\* chrono::NaiveDateTime at second resolution:
\* [year, month, day, hour, minute, second, leap]; leap marks the leap
\* second 23:59:60 style value that chrono stores as second 59.
\* ----------------------------------------------------------------------
IsLeapYear(year) == year % 4 = 0 /\ (year % 100 # 0 \/ year % 400 = 0)

DaysInMonth(year, month) ==
    IF month = 2 THEN (IF IsLeapYear(year) THEN 29 ELSE 28)
    ELSE IF month \in {4, 6, 9, 11} THEN 30 ELSE 31

\* NaiveDate::from_ymd_opt(year, month, day).is_some()
ValidDate(year, month, day) ==
    month \in 1..12 /\ day >= 1 /\ day <= DaysInMonth(year, month)

\* mutant of ValidTime: hour 24 is accepted
ValidTimeHour24(hour, minute, second) == hour <= 24 /\ minute < 60 /\ second < 60

\* NaiveTime::from_hms_opt(hour, minute, second).is_some()
ValidTime(hour, minute, second) == hour < 24 /\ minute < 60 /\ second < 60

NaiveDateTimeNew(year, month, day, hour, minute, second) ==
    [year |-> year, month |-> month, day |-> day,
     hour |-> hour, minute |-> minute, second |-> second, leap |-> FALSE]

\* leap years before year
LeapYearsBefore(year) == (year - 1) \div 4 - (year - 1) \div 100 + (year - 1) \div 400

RECURSIVE DaysBeforeMonth(_, _)
DaysBeforeMonth(year, month) ==
    IF month = 1 THEN 0
    ELSE DaysBeforeMonth(year, month - 1) + DaysInMonth(year, month - 1)

\* days since 0001-01-01, which was a Monday
DayNumber(year, month, day) ==
    365 * (year - 1) + LeapYearsBefore(year) + DaysBeforeMonth(year, month) + day - 1

\* datetime.weekday().number_from_monday()
NumberFromMonday(datetime) ==
    (DayNumber(datetime.year, datetime.month, datetime.day) % 7) + 1

\* datetime.format("%Y-%m-%dT%H:%M:%S"), years 0..9999
DateTimeText(datetime) ==
    PaddedText(datetime.year, 4) \o <<"-">> \o PaddedText(datetime.month, 2)
        \o <<"-">> \o PaddedText(datetime.day, 2) \o <<"T">>
        \o PaddedText(datetime.hour, 2) \o <<":">> \o PaddedText(datetime.minute, 2)
        \o <<":">> \o PaddedText(IF datetime.leap THEN 60 ELSE datetime.second, 2)

\* chrono's numeric item: leading spaces are skipped, then one up to width
\* digits are taken (a signed year is not among the sampled texts)
RECURSIVE SkipSpaces(_)
SkipSpaces(text) ==
    IF text # <<>> /\ Head(text) = " " THEN SkipSpaces(Tail(text)) ELSE text

RECURSIVE DigitRun(_, _)
DigitRun(text, width) ==
    IF width = 0 \/ text = <<>> \/ ~IsDigit(Head(text)) THEN 0
    ELSE 1 + DigitRun(Tail(text), width - 1)

\* the items of the format "%Y-%m-%dT%H:%M:%S"
Numeric(width) == [width |-> width, literal |-> ""]
Literal(ch) == [width |-> 0, literal |-> ch]
DateTimeItems ==
    <<Numeric(4), Literal("-"), Numeric(2), Literal("-"), Numeric(2), Literal("T"),
      Numeric(2), Literal(":"), Numeric(2), Literal(":"), Numeric(2)>>

\* parses the items in turn; gives the numbers read, or <<-1>> when the
\* text does not match
RECURSIVE ScanItems(_, _, _)
ScanItems(text, items, numbers) ==
    IF items = <<>> THEN (IF text = <<>> THEN numbers ELSE <<0 - 1>>)
    ELSE IF Head(items).width > 0
    THEN LET t == SkipSpaces(text)
             n == DigitRun(t, Head(items).width)
         IN  IF n = 0 THEN <<0 - 1>>
             ELSE ScanItems(Drop(t, n), Tail(items),
                            Append(numbers, DigitsValue(Take(t, n), 0, 9999)))
    ELSE IF text # <<>> /\ Head(text) = Head(items).literal
    THEN ScanItems(Tail(text), Tail(items), numbers)
    ELSE <<0 - 1>>

\* NaiveDateTime::parse_from_str(s, "%Y-%m-%dT%H:%M:%S")
ParseDateTime(text) ==
    LET n == ScanItems(text, DateTimeItems, <<>>)
    IN  IF n = <<0 - 1>> THEN Err("ParseDateTimeError")
        ELSE IF ~ValidDate(n[1], n[2], n[3]) \/ n[4] >= 24 \/ n[5] >= 60 \/ n[6] > 60
        THEN Err("ParseDateTimeError")
        ELSE Ok([year |-> n[1], month |-> n[2], day |-> n[3],
                       hour |-> n[4], minute |-> n[5],
                       second |-> IF n[6] = 60 THEN 59 ELSE n[6],
                       leap |-> n[6] = 60])

\* ----------------------------------------------------------------------
\* datatypes.rs and value.rs
\* ----------------------------------------------------------------------
DatatypeSetting(max) == [tag |-> "Setting", n |-> max]
DatatypeNumber == [tag |-> "Number", n |-> 0]
DatatypeFloat(factor) == [tag |-> "Float", n |-> factor]
DatatypeDateTime == [tag |-> "DateTime", n |-> 0]
DatatypeSchedule == [tag |-> "Schedule", n |-> 0]

ValueSetting(flag, setting, max) ==
    [tag |-> "Setting", flag |-> flag, setting |-> setting, max |-> max]
ValueNumber(flag, value) == [tag |-> "Number", flag |-> flag, value |-> value]
ValueFloat(flag, value, factor) ==
    [tag |-> "Float", flag |-> flag, value |-> value, factor |-> factor]
ValueDateTime(flag, datetime) == [tag |-> "DateTime", flag |-> flag, datetime |-> datetime]
ValueSchedule(ranges) == [tag |-> "Schedule", ranges |-> ranges]

\* #[derive(PartialEq)] on Value: f32 fields compare as f32 does
ValueEq(a, b) ==
    /\ a.tag = b.tag
    /\ IF a.tag = "Float"
       THEN a.flag = b.flag /\ a.factor = b.factor /\ F32Eq(a.value, b.value)
       ELSE a = b

\* mutant of RangeInvalid: only the hours are checked
RangeInvalidHoursOnly(range) == range[1] > 24 \/ range[3] > 24

\* the range check of decode and from_str:
\* sh > 24 || eh > 24 || sm > 59 || em > 59
RangeInvalid(range) == range[1] > 24 \/ range[3] > 24 \/ range[2] > 59 \/ range[4] > 59

\* Value::encode: the Schedule loop
RECURSIVE EncodeRanges(_)
EncodeRanges(items) ==
    IF items = <<>> THEN <<>> ELSE Head(items) \o EncodeRanges(Tail(items))

\* (value * f32::from(factor)) as u16
ScaledNumber(value, factor) == F32AsU16(F32MulFactor(value, factor))

\* (value.year() - 1900).try_into().unwrap_or_default()
YearByte(year) == IF year - 1900 \in Byte THEN year - 1900 ELSE 0

\* mutant of Terminator: the high bit of the first byte is not set
TerminatorPlain == <<24, 0, 24, 0>>
\* terminate the schedule: [24 ^ 0x80, 0, 24, 0]
Terminator == <<BitXor(24, 128, 8), 0, 24, 0>>

ValueEncode(v) ==
    IF v.tag = "Setting" THEN <<v.flag, v.setting>>
    ELSE IF v.tag = "Number" THEN <<v.flag>> \o BeU16(v.value)
    ELSE IF v.tag = "Float" THEN <<v.flag>> \o BeU16(ScaledNumber(v.value, v.factor))
    ELSE IF v.tag = "DateTime"
    THEN <<v.flag, YearByte(v.datetime.year), v.datetime.month, v.datetime.day,
           NumberFromMonday(v.datetime), v.datetime.hour, v.datetime.minute,
           v.datetime.second, 0>>
    ELSE EncodeRanges(v.ranges) \o Terminator

\* i16::from_be_bytes
BeI16Value(input) ==
    IF BeU16Value(input) >= 32768 THEN BeU16Value(input) - 65536 ELSE BeU16Value(input)

\* Value::decode: the Schedule loop over payload.chunks_exact(4), from chunk i on
RECURSIVE DecodeRanges(_, _, _)
DecodeRanges(payload, i, ranges) ==
    IF 4 * i > Len(payload) THEN Ok(ranges)
    ELSE LET chunk == SubSeq(payload, 4 * i - 3, 4 * i)
         IN  IF BitAnd(chunk[1], 128, 8) # 0 THEN Ok(ranges)
             ELSE IF RangeInvalid(chunk) THEN Err("InvalidSchedule")
             ELSE DecodeRanges(payload, i + 1, Append(ranges, chunk))

\* mutant of SettingTooLarge: the maximum itself is rejected
SettingTooLargeInclusive(setting, max) == setting >= max

\* setting > max
SettingTooLarge(setting, max) == setting > max

\* mutant of NumberTooShort: a fourth byte is required
NumberTooShortFour(payload) == Len(payload) < 4

\* payload.len() < 3
NumberTooShort(payload) == Len(payload) < 3

ValueDecode(payload, datatype) ==
    IF datatype.tag = "Setting"
    THEN IF Len(payload) < 2 THEN Err("InvalidPayloadLength")
         ELSE IF SettingTooLarge(payload[2], datatype.n) THEN Err("InvalidSetting")
         ELSE IF Len(payload) < 1 THEN Err("NoFlag")
         ELSE Ok(ValueSetting(payload[1], payload[2], datatype.n))
    ELSE IF datatype.tag = "Number"
    THEN IF NumberTooShort(payload) THEN Err("InvalidPayloadLength")
         ELSE Ok(ValueNumber(payload[1], BeU16Value(SubSeq(payload, 2, 3))))
    ELSE IF datatype.tag = "Float"
    THEN IF Len(payload) < 3 THEN Err("InvalidPayloadLength")
         ELSE Ok(ValueFloat(payload[1],
                            F32DivFactor(BeI16Value(SubSeq(payload, 2, 3)), datatype.n),
                            datatype.n))
    ELSE IF datatype.tag = "DateTime"
    THEN IF Len(payload) < 9 THEN Err("InvalidPayloadLength")
         ELSE IF ~ValidDate(1900 + payload[2], payload[3], payload[4])
         THEN Err("InvalidDateTime")
         ELSE IF ~ValidTime(payload[6], payload[7], payload[8]) THEN Err("InvalidDateTime")
         ELSE Ok(ValueDateTime(payload[1],
                               NaiveDateTimeNew(1900 + payload[2], payload[3], payload[4],
                                                payload[6], payload[7], payload[8])))
    ELSE LET ranges == DecodeRanges(payload, 1, <<>>)
         IN  IF ~ranges.ok THEN ranges
             ELSE IF Len(payload) % 4 # 0 THEN Err("InvalidSchedule")
             ELSE Ok(ValueSchedule(ranges.value))

\* impl Display for Value
RangeText(range) ==
    UIntText(range[1]) \o <<":">> \o UIntText(range[2]) \o <<"-">>
        \o UIntText(range[3]) \o <<":">> \o UIntText(range[4])

ValueToString(v) ==
    IF v.tag = "Setting" THEN UIntText(v.setting)
    ELSE IF v.tag = "Number" THEN UIntText(v.value)
    ELSE IF v.tag = "Float" THEN F32Text(v.value)
    ELSE IF v.tag = "DateTime" THEN DateTimeText(v.datetime)
    ELSE Join([i \in 1..Len(v.ranges) |-> RangeText(v.ranges[i])], <<",">>)

\* Value::from_str, Schedule: one "{sh}:{sm}-{eh}:{em}"
RangeFromStr(range) ==
    LET a == SplitOnce(range, ":")
        b == SplitOnce(a.right, "-")
        c == SplitOnce(b.right, ":")
        sh == ParseUInt(a.left, 255)
        sm == ParseUInt(b.left, 255)
        eh == ParseUInt(c.left, 255)
        em == ParseUInt(c.right, 255)
    IN  IF ~a.found \/ ~b.found \/ ~c.found THEN Err("InvalidSchedule")
        ELSE IF ~sh.ok THEN sh
        ELSE IF ~sm.ok THEN sm
        ELSE IF ~eh.ok THEN eh
        ELSE IF ~em.ok THEN em
        ELSE IF RangeInvalid(<<sh.value, sm.value, eh.value, em.value>>)
        THEN Err("InvalidSchedule")
        ELSE Ok(<<sh.value, sm.value, eh.value, em.value>>)

\* Value::from_str, Schedule: the loop over s.split(',')
RECURSIVE RangesFromStr(_, _)
RangesFromStr(pieces, ranges) ==
    IF pieces = <<>> THEN Ok(ranges)
    ELSE LET range == RangeFromStr(Head(pieces))
         IN  IF ~range.ok THEN range
             ELSE RangesFromStr(Tail(pieces), Append(ranges, range.value))

ValueFromStr(s, datatype) ==
    IF datatype.tag = "Setting"
    THEN LET setting == ParseUInt(s, 255)
         IN  IF ~setting.ok THEN setting
             ELSE IF SettingTooLarge(setting.value, datatype.n) THEN Err("InvalidSetting")
             ELSE Ok(ValueSetting(0, setting.value, datatype.n))
    ELSE IF datatype.tag = "Number"
    THEN LET value == ParseUInt(s, 65535)
         IN  IF ~value.ok THEN value ELSE Ok(ValueNumber(0, value.value))
    ELSE IF datatype.tag = "Float"
    THEN LET value == ParseF32(s)
         IN  IF ~value.ok THEN value ELSE Ok(ValueFloat(0, value.value, datatype.n))
    ELSE IF datatype.tag = "DateTime"
    THEN LET datetime == ParseDateTime(s)
         IN  IF ~datetime.ok THEN datetime ELSE Ok(ValueDateTime(0, datetime.value))
    ELSE LET ranges == RangesFromStr(Split(s, ","), <<>>)
         IN  IF ~ranges.ok THEN ranges ELSE Ok(ValueSchedule(ranges.value))

\* Value::flag: None is -1
ValueFlag(v) == IF v.tag = "Schedule" THEN 0 - 1 ELSE v.flag

\* Value::datatype
ValueDatatype(v) ==
    IF v.tag = "Setting" THEN DatatypeSetting(v.max)
    ELSE IF v.tag = "Number" THEN DatatypeNumber
    ELSE IF v.tag = "Float" THEN DatatypeFloat(v.factor)
    ELSE IF v.tag = "DateTime" THEN DatatypeDateTime
    ELSE DatatypeSchedule

\* Value::default_for_datatype; DateTime::from_timestamp(0, 0) is 1970-01-01T00:00:00
ValueDefaultForDatatype(datatype) ==
    IF datatype.tag = "Setting" THEN ValueSetting(0, 0, datatype.n)
    ELSE IF datatype.tag = "Number" THEN ValueNumber(0, 0)
    ELSE IF datatype.tag = "Float" THEN ValueFloat(0, F32Zero(0), datatype.n)
    ELSE IF datatype.tag = "DateTime"
    THEN ValueDateTime(0, NaiveDateTimeNew(1970, 1, 1, 0, 0, 0))
    ELSE ValueSchedule(<< <<0, 0, 0, 0>> >>)

\* ----------------------------------------------------------------------
\* A session with the value codec.  calls holds the calls made so far, each
\* with its arguments and its result; a later call works on the result of
\* the call before it.
\* ----------------------------------------------------------------------
NoDatatype == [tag |-> "None", n |-> 0]
NoValue == [tag |-> "None"]

Call(op, datatype, payload, value, text, res) ==
    [op |-> op, datatype |-> datatype, payload |-> payload, value |-> value,
     text |-> text, result |-> res]

\* the number of calls of one session
MaxCalls == 2

\* sampled datatypes
Datatypes ==
    {DatatypeSetting(0), DatatypeSetting(2), DatatypeSetting(255), DatatypeNumber,
     DatatypeFloat(0), DatatypeFloat(10), DatatypeFloat(50), DatatypeFloat(64),
     DatatypeDateTime, DatatypeSchedule}

\* sampled payloads: by length 0 to 3, schedules of one to three chunks with
\* and without residue, date-times with every field at and beyond its bounds
Flags == {0, 7}
Words == {<<0, 0>>, <<0, 15>>, <<0, 35>>, <<0, 53>>, <<5, 192>>, <<127, 255>>,
          <<128, 0>>, <<255, 241>>, <<255, 255>>}
Chunks ==
    {<<6, 50, 7, 10>>, <<24, 59, 24, 59>>, <<0, 0, 0, 0>>, <<25, 0, 0, 0>>,
     <<0, 60, 0, 0>>, <<0, 0, 25, 0>>, <<0, 0, 0, 60>>, <<152, 0, 24, 0>>,
     <<128, 99, 99, 99>>, <<127, 0, 0, 0>>}
Residues == {<<18>>, <<18, 30, 18>>, <<152>>, <<152, 0, 24>>}
SchedulePayloads ==
    Chunks \cup {a \o b : a \in Chunks, b \in Chunks}
        \cup {a \o b \o Terminator : a \in {<<6, 50, 7, 10>>, <<25, 0, 0, 0>>},
                                     b \in {<<18, 30, 18, 50>>, <<18, 30, 18, 60>>}}
        \cup {a \o r : a \in {<<>>, <<6, 50, 7, 10>>, <<152, 0, 24, 0>>}, r \in Residues}
DateTimePayloads ==
    {<<0, y, mo, d, 1, 9, 36, 57, 0>> :
        y \in {0, 100, 124, 200, 255}, mo \in {0, 2, 4, 12, 13},
        d \in {0, 1, 28, 29, 30, 31, 32}}
        \cup {<<7, 124, 11, 11, dow, h, mi, sec, tz>> :
                dow \in {1, 9}, h \in {0, 23, 24, 25}, mi \in {0, 59, 60},
                sec \in {0, 59, 60}, tz \in {0, 1}}
        \cup {<<0, 124, 11, 11, 1, 9, 36, 57>>, <<0, 124, 11, 11, 1, 9, 36, 57, 0, 0>>,
              <<0, 124, 11, 11, 1, 25, 36, 57, 0>>}
ValuePayloads ==
    {<<>>, <<0>>, <<7>>}
        \cup {<<f, v>> : f \in Flags, v \in {0, 1, 2, 3, 255}}
        \cup {<<f>> \o w : f \in Flags, w \in Words}
        \cup SchedulePayloads \cup DateTimePayloads

\* sampled values, built as a caller of the crate can build them
RawNumbers == {0, 1, 15, 35, 53, 1472, 32767, 40000, 0 - 1, 0 - 15, 0 - 32768}
DateTimes ==
    {NaiveDateTimeNew(1970, 1, 1, 0, 0, 0), NaiveDateTimeNew(2024, 11, 11, 9, 36, 57),
     NaiveDateTimeNew(1900, 1, 1, 0, 0, 0), NaiveDateTimeNew(2155, 12, 31, 23, 59, 59),
     NaiveDateTimeNew(2000, 2, 29, 12, 0, 0), NaiveDateTimeNew(1899, 12, 31, 23, 59, 59),
     NaiveDateTimeNew(2156, 1, 1, 0, 0, 0)}
RangeLists ==
    {<<>>, << <<0, 0, 0, 0>> >>, << <<6, 50, 7, 10>> >>,
     << <<6, 50, 7, 10>>, <<18, 30, 18, 50>> >>,
     << <<6, 50, 7, 10>>, <<18, 30, 18, 50>>, <<24, 59, 24, 59>> >>,
     << <<25, 0, 0, 0>> >>, << <<6, 50, 7, 10>>, <<18, 30, 18, 60>> >>,
     << <<152, 0, 24, 0>> >>}
Values ==
    {ValueSetting(f, v, max) : f \in Flags, v \in {0, 1, 2, 3}, max \in {0, 2, 255}}
        \cup {ValueNumber(f, v) : f \in Flags, v \in {0, 15, 255, 256, 65535}}
        \cup {ValueFloat(f, F32DivFactor(n, d), d) :
                f \in Flags, n \in RawNumbers, d \in {0, 10, 50, 64}}
        \cup {ValueFloat(0, F32DivFactor(n, d), factor) :
                <<n, d, factor>> \in {<<15, 4, 2>>, <<13, 4, 2>>, <<149, 100, 10>>,
                                      <<65535, 2, 2>>, <<65536, 1, 1>>}}
        \cup {ValueDateTime(f, t) : f \in Flags, t \in DateTimes}
        \cup {ValueSchedule(r) : r \in RangeLists}

\* sampled texts
Texts ==
    {<<"3">>,
     <<"2">>,
     <<"2", "5", "6">>,
     <<"+", "1">>,
     <<>>,
     <<"x">>,
     <<"1", "5">>,
     <<"6", "5", "5", "3", "6">>,
     <<"1", ".", "5">>,
     <<"-", "1", ".", "5">>,
     <<"0", ".", "7">>,
     <<"1", ".", "0", "6">>,
     <<"2", "3">>,
     <<"i", "n", "f">>,
     <<"6", ":", "5", "0", "-", "7", ":", "1", "0">>,
     <<"6", ":", "5", "0", "-", "7", ":", "1", "0", ",", "1", "8", ":", "3", "0", "-", "1", "8", ":", "5", "0">>,
     <<"6", ":", "5", "0", "-", "7", ":", "1", "0", ",", "1", "8", ":", "3", "0", "-", "1", "8", ":", "6", "0">>,
     <<"6", ":", "5", "0", "-", "7", ":", "1", "0", ",", "1", "8", ":", "3", "0", "1", "8", ":", "5", "0">>,
     <<"2", "4", ":", "5", "9", "-", "2", "4", ":", "5", "9">>,
     <<"6", ":", "5", "0", "-", "7", ":", "1", "0", ",">>,
     <<"2", "0", "2", "4", "-", "1", "1", "-", "1", "1", "T", "0", "9", ":", "3", "6", ":", "5", "7">>,
     <<"2", "0", "2", "4", "-", "0", "2", "-", "3", "0", "T", "0", "0", ":", "0", "0", ":", "0", "0">>,
     <<"2", "0", "2", "4", "-", "1", "1", "-", "1", "1", "T", "0", "9", ":", "3", "6", ":", "6", "0">>,
     <<"2", "0", "2", "4", "-", "1", "1", "-", "1", "1", " ", "0", "9", ":", "3", "6", ":", "5", "7">>,
     <<"1", "9", "7", "0", "-", "1", "-", "1", "T", "0", ":", "0", ":", "0">>}

LastCall == calls[Len(calls)]

\* the last call returned a Value
LastGaveValue ==
    /\ calls # <<>>
    /\ LastCall.op \in {"decode", "from_str", "default_for_datatype"}
    /\ LastCall.result.ok

Record(call) ==
    /\ Len(calls) < MaxCalls
    /\ calls' = Append(calls, call)
    /\ UNCHANGED frameVars

\* Value::decode(payload, datatype), of a sampled payload or of the payload
\* the last call encoded, under the datatype of the encoded value
CallValueDecode ==
    \/ /\ calls = <<>>
       /\ \E payload \in ValuePayloads, datatype \in Datatypes :
            Record(Call("decode", datatype, payload, NoValue, <<>>,
                        ValueDecode(payload, datatype)))
    \/ /\ calls # <<>>
       /\ LastCall.op = "encode"
       /\ Record(Call("decode", ValueDatatype(LastCall.value), LastCall.result.value,
                      NoValue, <<>>,
                      ValueDecode(LastCall.result.value, ValueDatatype(LastCall.value))))

\* value.encode(), of a sampled value or of the value the last call returned
CallValueEncode ==
    \/ /\ calls = <<>>
       /\ \E v \in Values :
            Record(Call("encode", NoDatatype, <<>>, v, <<>>, Ok(ValueEncode(v))))
    \/ /\ LastGaveValue
       /\ Record(Call("encode", NoDatatype, <<>>, LastCall.result.value, <<>>,
                      Ok(ValueEncode(LastCall.result.value))))

\* value.to_string()
CallValueToString ==
    \/ /\ calls = <<>>
       /\ \E v \in Values :
            Record(Call("to_string", NoDatatype, <<>>, v, <<>>, Ok(ValueToString(v))))
    \/ /\ LastGaveValue
       /\ Record(Call("to_string", NoDatatype, <<>>, LastCall.result.value, <<>>,
                      Ok(ValueToString(LastCall.result.value))))

\* Value::from_str(s, datatype), of a sampled text or of the text the last
\* call wrote, under the datatype of the written value
CallValueFromStr ==
    \/ /\ calls = <<>>
       /\ \E s \in Texts, datatype \in Datatypes :
            Record(Call("from_str", datatype, <<>>, NoValue, s, ValueFromStr(s, datatype)))
    \/ /\ calls # <<>>
       /\ LastCall.op = "to_string"
       /\ Record(Call("from_str", ValueDatatype(LastCall.value), <<>>, NoValue,
                      LastCall.result.value,
                      ValueFromStr(LastCall.result.value, ValueDatatype(LastCall.value))))

\* Value::default_for_datatype(datatype)
CallValueDefaultForDatatype ==
    /\ calls = <<>>
    /\ \E datatype \in Datatypes :
         Record(Call("default_for_datatype", datatype, <<>>, NoValue, <<>>,
                     Ok(ValueDefaultForDatatype(datatype))))

ValueNext ==
    \/ CallValueDecode
    \/ CallValueEncode
    \/ CallValueToString
    \/ CallValueFromStr
    \/ CallValueDefaultForDatatype

SpecValue == Init /\ [][ValueNext]_vars

\* ======================================================================
\* Claims about the value codec
\* ======================================================================

I16 == (0 - 32768)..32767

\* the f32 is raw / factor for some i16 raw: the candidates are the two
\* integers around |value| * factor
WireRepresentable(value, factor) ==
    /\ factor # 0
    /\ value.kind = "finite"
    /\ LET t == F32AsU16(F32MulFactor([value EXCEPT !.s = 0], factor))
       IN  \E n \in {t, t + 1} :
             LET raw == IF value.s = 1 THEN 0 - n ELSE n
             IN  raw \in I16 /\ F32Eq(F32DivFactor(raw, factor), value)

\* a value valid under its datatype
ValidValue(v) ==
    IF v.tag = "Setting" THEN v.setting <= v.max
    ELSE IF v.tag = "Float" THEN WireRepresentable(v.value, v.factor)
    ELSE IF v.tag = "DateTime"
    THEN /\ v.datetime.year \in 1900..2155
         /\ ValidDate(v.datetime.year, v.datetime.month, v.datetime.day)
         /\ ValidTime(v.datetime.hour, v.datetime.minute, v.datetime.second)
         /\ ~v.datetime.leap
    ELSE IF v.tag = "Schedule"
    THEN \A i \in 1..Len(v.ranges) : ~RangeInvalid(v.ranges[i])
    ELSE TRUE

\* the session encoded a sampled value and decoded the bytes again
EncodedThenDecoded ==
    /\ Len(calls) >= 2
    /\ calls[1].op = "encode"
    /\ calls[2].op = "decode"

\* C11: for every value v valid under its datatype d, decode(encode(v), d)
\* succeeds and equals v, flag included.
C11_ValueRoundTripBytes ==
    (EncodedThenDecoded /\ ValidValue(calls[1].value))
        => /\ calls[2].result.ok
           /\ ValueEq(calls[2].result.value, calls[1].value)

\* the session decoded a sampled payload and encoded the value again
DecodedThenEncoded ==
    /\ Len(calls) >= 2
    /\ calls[1].op = "decode"
    /\ calls[1].result.ok
    /\ calls[2].op = "encode"

\* C12: for every datatype d and every payload p that decode(p, d) accepts,
\* encode(decode(p, d)) equals p byte for byte.
C12_EncodeInvertsDecode ==
    DecodedThenEncoded => calls[2].result.value = calls[1].payload

\* the minimum payload lengths the specification names
MinimumLength(datatype) ==
    IF datatype.tag = "Setting" THEN 2
    ELSE IF datatype.tag \in {"Number", "Float"} THEN 3
    ELSE 9

\* C13: decoding under Setting, Number, Float or DateTime fails with
\* InvalidPayloadLength exactly when the payload is shorter than 2, 3, 3 or 9
\* bytes, and the bytes beyond that length do not affect the result.
C13_MinimumPayloadLength ==
    \A i \in 1..Len(calls) :
        (calls[i].op = "decode" /\ calls[i].datatype.tag # "Schedule")
            => LET min == MinimumLength(calls[i].datatype)
                   short == Len(calls[i].payload) < min
               IN  /\ short <=> (~calls[i].result.ok
                                  /\ calls[i].result.error = "InvalidPayloadLength")
                   /\ ~short => calls[i].result
                                  = ValueDecode(Take(calls[i].payload, min), calls[i].datatype)

C13_Witness ==
    /\ calls # <<>>
    /\ calls[1].op = "decode"
    /\ calls[1].datatype.tag = "Setting"
    /\ Len(calls[1].payload) = 1
    /\ calls[1].result = Err("InvalidPayloadLength")

\* C14: under Setting(max), decoding a payload whose second byte is v and
\* parsing the decimal text of v both fail with InvalidSetting if and only
\* if v > max; every Setting value that decode or from_str returns has
\* setting <= max and records that max.
C14_SettingBound ==
    \A i \in 1..Len(calls) :
        (calls[i].op \in {"decode", "from_str"} /\ calls[i].datatype.tag = "Setting")
            => LET max == calls[i].datatype.n
                   res == calls[i].result
               IN  /\ (calls[i].op = "decode" /\ Len(calls[i].payload) >= 2)
                        => ((~res.ok /\ res.error = "InvalidSetting")
                                <=> calls[i].payload[2] > max)
                   /\ \A v \in Byte :
                        (calls[i].op = "from_str" /\ calls[i].text = UIntText(v))
                            => ((~res.ok /\ res.error = "InvalidSetting") <=> v > max)
                   /\ res.ok => /\ res.value.tag = "Setting"
                                /\ res.value.setting <= max
                                /\ res.value.max = max

\* a payload and a text whose value is the maximum itself are accepted
C14_Witness ==
    /\ calls # <<>>
    /\ calls[1].datatype = DatatypeSetting(2)
    /\ \/ calls[1].op = "decode" /\ calls[1].payload = <<7, 2>>
       \/ calls[1].op = "from_str" /\ calls[1].text = <<"2">>
    /\ calls[1].result.ok
    /\ calls[1].result.value.setting = 2

\* the i-th 4-byte chunk of a payload
ChunkAt(payload, i) == SubSeq(payload, 4 * i - 3, 4 * i)

\* the index of the first chunk whose first byte has bit 7 set, or one more
\* than the number of chunks if there is none
TerminatorIndex(payload) ==
    LET n == Len(payload) \div 4
    IN  IF \E i \in 1..n : ChunkAt(payload, i)[1] >= 128
        THEN CHOOSE i \in 1..n :
                /\ ChunkAt(payload, i)[1] >= 128
                /\ \A j \in 1..(i - 1) : ChunkAt(payload, j)[1] < 128
        ELSE n + 1

\* C15: the decoded ranges of a Schedule payload are, in payload order, the
\* 4-byte chunks ahead of the first chunk whose first byte has bit 7 set;
\* the result is InvalidSchedule if and only if one of these chunks violates
\* sh <= 24, eh <= 24, sm <= 59, em <= 59 or the payload length is not a
\* multiple of 4.
C15_ScheduleDecoding ==
    \A i \in 1..Len(calls) :
        (calls[i].op = "decode" /\ calls[i].datatype.tag = "Schedule")
            => LET p == calls[i].payload
                   res == calls[i].result
                   last == TerminatorIndex(p) - 1
                   bad == \E j \in 1..last :
                            LET c == ChunkAt(p, j)
                            IN  c[1] > 24 \/ c[3] > 24 \/ c[2] > 59 \/ c[4] > 59
               IN  /\ ~res.ok <=> (bad \/ Len(p) % 4 # 0)
                   /\ ~res.ok => res.error = "InvalidSchedule"
                   /\ res.ok => res.value = ValueSchedule([j \in 1..last |-> ChunkAt(p, j)])

\* two ranges ahead of the terminator
C15_Witness ==
    /\ calls # <<>>
    /\ calls[1].op = "decode"
    /\ calls[1].datatype.tag = "Schedule"
    /\ calls[1].payload = <<6, 50, 7, 10, 18, 30, 18, 50, 152, 0, 24, 0>>
    /\ calls[1].result = Ok(ValueSchedule(<< <<6, 50, 7, 10>>, <<18, 30, 18, 50>> >>))

\* C16: for every list of ranges xs, the empty list included,
\* encode(Schedule(xs)) is the 4-byte records of xs in order followed by the
\* terminator 0x98 0x00 0x18 0x00; its length is 4 * (len(xs) + 1).
C16_ScheduleTerminator ==
    \A i \in 1..Len(calls) :
        (calls[i].op = "encode" /\ calls[i].value.tag = "Schedule")
            => LET xs == calls[i].value.ranges
                   bytes == calls[i].result.value
               IN  /\ Len(bytes) = 4 * (Len(xs) + 1)
                   /\ \A j \in 1..Len(xs) : \A k \in 1..4 : bytes[4 * (j - 1) + k] = xs[j][k]
                   /\ SubSeq(bytes, Len(bytes) - 3, Len(bytes)) = <<152, 0, 24, 0>>

\* the empty list is encoded as the terminator alone
C16_Witness ==
    /\ calls # <<>>
    /\ calls[1].op = "encode"
    /\ calls[1].value = ValueSchedule(<<>>)
    /\ calls[1].result.value = <<152, 0, 24, 0>>

\* a date of the Gregorian calendar
MonthLengths == <<31, 28, 31, 30, 31, 30, 31, 31, 30, 31, 30, 31>>
CalendarDate(year, month, day) ==
    /\ month \in 1..12
    /\ day >= 1
    /\ \/ day <= MonthLengths[month]
       \/ /\ month = 2 /\ day = 29
          /\ year % 4 = 0
          /\ (year % 100 # 0 \/ year % 400 = 0)

\* C17: for a payload of at least 9 bytes, decode under DateTime succeeds if
\* and only if (1900 + byte1, byte2, byte3) is a calendar date and byte5 < 24,
\* byte6 < 60, byte7 < 60, and fails with InvalidDateTime otherwise; neither
\* the outcome nor the decoded date-time depends on byte4 or byte8.
C17_DateTimeDecoding ==
    \A i \in 1..Len(calls) :
        (calls[i].op = "decode" /\ calls[i].datatype.tag = "DateTime"
            /\ Len(calls[i].payload) >= 9)
            => LET p == calls[i].payload
                   res == calls[i].result
                   valid == /\ CalendarDate(1900 + p[2], p[3], p[4])
                            /\ p[6] < 24 /\ p[7] < 60 /\ p[8] < 60
               IN  /\ res.ok <=> valid
                   /\ ~res.ok => res.error = "InvalidDateTime"
                   /\ res.ok => /\ res.value.flag = p[1]
                                /\ res.value.datetime
                                     = NaiveDateTimeNew(1900 + p[2], p[3], p[4], p[6], p[7], p[8])
                   /\ \A dow \in {0, 1, 255}, tz \in {0, 1, 255} :
                        ValueDecode([p EXCEPT ![5] = dow, ![9] = tz], calls[i].datatype) = res

\* a date-time with a weekday byte of 9 and a trailing byte of 1 is decoded
C17_Witness ==
    /\ calls # <<>>
    /\ calls[1].op = "decode"
    /\ calls[1].datatype.tag = "DateTime"
    /\ calls[1].payload = <<7, 124, 11, 11, 9, 23, 59, 59, 1>>
    /\ calls[1].result.ok
    /\ calls[1].result.value.datetime = NaiveDateTimeNew(2024, 11, 11, 23, 59, 59)

\* a value that respects the bounds of its datatype
BoundsRespected(v) ==
    IF v.tag = "Setting" THEN v.setting <= v.max
    ELSE IF v.tag = "Schedule" THEN \A i \in 1..Len(v.ranges) : ~RangeInvalid(v.ranges[i])
    ELSE TRUE

\* the session wrote a sampled value as text and parsed the text again
WrittenThenParsed ==
    /\ Len(calls) >= 2
    /\ calls[1].op = "to_string"
    /\ calls[2].op = "from_str"

\* C18: for every value v of every datatype (any flag byte; Schedule lists
\* of any length, the empty list included),
\* Value::from_str(v.to_string(), v.datatype()) succeeds and equals v.
C18_ValueRoundTripText ==
    (WrittenThenParsed /\ BoundsRespected(calls[1].value))
        => /\ calls[2].result.ok
           /\ ValueEq(calls[2].result.value, calls[1].value)

\* ======================================================================
\* typed_value.rs.  TypedValue pairs a datatype and an optional flag with a
\* Value that carries no flag, max or factor: Setting(u8), Number(u16),
\* Float(f32), DateTime(NaiveDateTime), Schedule(Vec<(u8, u8, u8, u8)>).
\* ======================================================================
BareSetting(v) == [tag |-> "Setting", setting |-> v]
BareNumber(v) == [tag |-> "Number", number |-> v]
BareFloat(v) == [tag |-> "Float", float |-> v]
BareDateTime(v) == [tag |-> "DateTime", datetime |-> v]
BareSchedule(v) == [tag |-> "Schedule", ranges |-> v]

\* the Value of typed_value.rs that Value::from_str and
\* Value::default_for_datatype give for it
Bare(v) ==
    IF v.tag = "Setting" THEN BareSetting(v.setting)
    ELSE IF v.tag = "Number" THEN BareNumber(v.value)
    ELSE IF v.tag = "Float" THEN BareFloat(v.value)
    ELSE IF v.tag = "DateTime" THEN BareDateTime(v.datetime)
    ELSE BareSchedule(v.ranges)

\* Option<u8>: None, or Some(flag) as the flag itself
None == 0 - 1

TypedValue(datatype, flag, value) == [datatype |-> datatype, flag |-> flag, value |-> value]

\* TypedValue::new
TypedValueNew(datatype, flag, value) ==
    IF value.tag = "Setting" /\ datatype.tag = "Setting"
    THEN IF value.setting > datatype.n THEN Err("InvalidSetting")
         ELSE Ok(TypedValue(datatype, flag, value))
    ELSE IF value.tag = datatype.tag THEN Ok(TypedValue(datatype, flag, value))
    ELSE Err("InvalidDatatype")

\* TypedValue::from_str
TypedValueFromStr(s, datatype) ==
    LET value == ValueFromStr(s, datatype)
    IN  IF ~value.ok THEN value ELSE Ok(TypedValue(datatype, 0, Bare(value.value)))

\* payload.get(0)
PayloadGet0(payload) == IF payload = <<>> THEN None ELSE payload[1]

\* TypedValue::decode
TypedValueDecode(payload, datatype) ==
    IF datatype.tag = "Setting"
    THEN IF Len(payload) < 2 THEN Err("InvalidPayloadLength")
         ELSE IF payload[2] > datatype.n THEN Err("InvalidSetting")
         ELSE Ok(TypedValue(datatype, PayloadGet0(payload), BareSetting(payload[2])))
    ELSE IF datatype.tag = "Number"
    THEN IF Len(payload) < 3 THEN Err("InvalidPayloadLength")
         ELSE Ok(TypedValue(datatype, PayloadGet0(payload),
                            BareNumber(BeU16Value(SubSeq(payload, 2, 3)))))
    ELSE IF datatype.tag = "Float"
    THEN IF Len(payload) < 3 THEN Err("InvalidPayloadLength")
         ELSE Ok(TypedValue(datatype, PayloadGet0(payload),
                            BareFloat(F32DivFactor(BeI16Value(SubSeq(payload, 2, 3)),
                                                   datatype.n))))
    ELSE IF datatype.tag = "DateTime"
    THEN IF Len(payload) < 9 THEN Err("InvalidPayloadLength")
         ELSE IF ~ValidDate(1900 + payload[2], payload[3], payload[4])
         THEN Err("InvalidDateTime")
         ELSE IF ~ValidTime(payload[6], payload[7], payload[8]) THEN Err("InvalidDateTime")
         ELSE Ok(TypedValue(datatype, PayloadGet0(payload),
                            BareDateTime(NaiveDateTimeNew(1900 + payload[2], payload[3],
                                                          payload[4], payload[6],
                                                          payload[7], payload[8]))))
    ELSE LET ranges == DecodeRanges(payload, 1, <<>>)
         IN  IF ~ranges.ok THEN ranges
             ELSE IF Len(payload) % 4 # 0 THEN Err("InvalidSchedule")
             ELSE Ok(TypedValue(datatype, None, BareSchedule(ranges.value)))

\* TypedValue::encode; self.flag.expect(..) and unimplemented!() panic
TypedValueEncode(tv) ==
    IF tv.value.tag = "Schedule" THEN Ok(EncodeRanges(tv.value.ranges) \o Terminator)
    ELSE IF tv.value.tag = "Float" /\ tv.datatype.tag # "Float" THEN Err("panic")
    ELSE IF tv.flag = None THEN Err("panic")
    ELSE IF tv.value.tag = "Setting" THEN Ok(<<tv.flag, tv.value.setting>>)
    ELSE IF tv.value.tag = "Number" THEN Ok(<<tv.flag>> \o BeU16(tv.value.number))
    ELSE IF tv.value.tag = "Float"
    THEN Ok(<<tv.flag>> \o BeU16(ScaledNumber(tv.value.float, tv.datatype.n)))
    ELSE Ok(<<tv.flag, YearByte(tv.value.datetime.year), tv.value.datetime.month, tv.value.datetime.day,
              NumberFromMonday(tv.value.datetime), tv.value.datetime.hour, tv.value.datetime.minute,
              tv.value.datetime.second, 0>>)

\* TypedValue::default_for_datatype
TypedValueDefaultForDatatype(datatype) ==
    TypedValue(datatype, 0, Bare(ValueDefaultForDatatype(datatype)))

\* ----------------------------------------------------------------------
\* A session of TypedValue calls: constructions from sampled arguments,
\* encode of the TypedValue the last call returned, and decode of sampled
\* payloads or of what the last call encoded.
\* ----------------------------------------------------------------------
MaxTypedCalls == 3

OptionFlags == {None} \cup Flags
BareValues == {Bare(v) : v \in Values}

\* the last call returned a TypedValue
LastGaveTypedValue ==
    /\ calls # <<>>
    /\ LastCall.op \in {"TypedValue::new", "TypedValue::from_str", "TypedValue::decode",
                        "TypedValue::default_for_datatype"}
    /\ LastCall.result.ok

TypedRecord(call) ==
    /\ Len(calls) < MaxTypedCalls
    /\ calls' = Append(calls, call)
    /\ UNCHANGED frameVars

\* TypedValue::new(datatype, flag, value)
CallTypedValueNew ==
    /\ calls = <<>>
    /\ \E datatype \in Datatypes, flag \in OptionFlags, value \in BareValues :
         TypedRecord(Call("TypedValue::new", datatype, <<>>,
                          TypedValue(datatype, flag, value), <<>>,
                          TypedValueNew(datatype, flag, value)))

\* TypedValue::from_str(s, datatype)
CallTypedValueFromStr ==
    /\ calls = <<>>
    /\ \E s \in Texts, datatype \in Datatypes :
         TypedRecord(Call("TypedValue::from_str", datatype, <<>>, NoValue, s,
                          TypedValueFromStr(s, datatype)))

\* TypedValue::decode(payload, datatype), of a sampled payload or of the
\* payload the last call encoded, under the datatype of the encoded value
CallTypedValueDecode ==
    \/ /\ calls = <<>>
       /\ \E payload \in ValuePayloads, datatype \in Datatypes :
            TypedRecord(Call("TypedValue::decode", datatype, payload, NoValue, <<>>,
                             TypedValueDecode(payload, datatype)))
    \/ /\ calls # <<>>
       /\ LastCall.op = "TypedValue::encode"
       /\ LastCall.result.ok
       /\ TypedRecord(Call("TypedValue::decode", LastCall.value.datatype,
                           LastCall.result.value, NoValue, <<>>,
                           TypedValueDecode(LastCall.result.value, LastCall.value.datatype)))

\* typed_value.encode()
CallTypedValueEncode ==
    /\ LastGaveTypedValue
    /\ TypedRecord(Call("TypedValue::encode", LastCall.result.value.datatype, <<>>,
                        LastCall.result.value, <<>>,
                        TypedValueEncode(LastCall.result.value)))

\* TypedValue::default_for_datatype(datatype)
CallTypedValueDefaultForDatatype ==
    /\ calls = <<>>
    /\ \E datatype \in Datatypes :
         TypedRecord(Call("TypedValue::default_for_datatype", datatype, <<>>, NoValue, <<>>,
                          Ok(TypedValueDefaultForDatatype(datatype))))

TypedNext ==
    \/ CallTypedValueNew
    \/ CallTypedValueFromStr
    \/ CallTypedValueDecode
    \/ CallTypedValueEncode
    \/ CallTypedValueDefaultForDatatype

SpecTyped == Init /\ [][TypedNext]_vars

\* ======================================================================
\* Claims about TypedValue
\* ======================================================================

\* the first call is TypedValue::new
Constructed == calls # <<>> /\ calls[1].op = "TypedValue::new"

\* the value's variant is not the datatype's
TagMismatch(datatype, value) == value.tag # datatype.tag

\* a Setting value above the datatype's maximum
SettingExceeds(datatype, value) ==
    value.tag = "Setting" /\ datatype.tag = "Setting" /\ value.setting > datatype.n

\* a Schedule value with a range outside hours 0..24, minutes 0..59
ScheduleOutOfRange(datatype, value) ==
    /\ value.tag = "Schedule"
    /\ datatype.tag = "Schedule"
    /\ \E i \in 1..Len(value.ranges) :
         \/ value.ranges[i][1] > 24
         \/ value.ranges[i][3] > 24
         \/ value.ranges[i][2] > 59
         \/ value.ranges[i][4] > 59

\* C19: TypedValue::new(datatype, flag, value) returns InvalidDatatype when
\* the value's variant differs from the datatype's tag, InvalidSetting when a
\* Setting value exceeds the datatype's max, an error when a Schedule value
\* holds an invalid range, and Ok only when none of these holds.
C19_TypedValueNewEnforcesInvariants ==
    Constructed =>
        LET datatype == calls[1].value.datatype
            value == calls[1].value.value
            returned == calls[1].result
        IN  /\ TagMismatch(datatype, value) => returned = Err("InvalidDatatype")
            /\ SettingExceeds(datatype, value) => returned = Err("InvalidSetting")
            /\ ScheduleOutOfRange(datatype, value) => ~returned.ok
            /\ returned.ok => /\ ~TagMismatch(datatype, value)
                            /\ ~SettingExceeds(datatype, value)
                            /\ ~ScheduleOutOfRange(datatype, value)

\* the calls that construct a TypedValue
Constructors ==
    {"TypedValue::new", "TypedValue::from_str", "TypedValue::decode",
     "TypedValue::default_for_datatype"}

\* C20: every TypedValue that new, from_str, decode or default_for_datatype
\* returns has flag = None exactly when its datatype is Schedule; encode of
\* such a value never fails for a missing flag, and decoding what it encoded
\* gives the same flag.
C20_FlagInvariant ==
    \A i \in 1..Len(calls) :
        /\ (calls[i].op \in Constructors /\ calls[i].result.ok)
              => (calls[i].result.value.flag = None
                      <=> calls[i].result.value.datatype.tag = "Schedule")
        /\ calls[i].op = "TypedValue::encode" => calls[i].result.ok
        /\ (i > 1 /\ calls[i].op = "TypedValue::decode"
                  /\ calls[i - 1].op = "TypedValue::encode" /\ calls[i].result.ok)
              => calls[i].result.value.flag = calls[i - 1].value.flag

\* ======================================================================
\* field.rs, field_value.rs, named_value.rs.  FIELDS is generated at build
\* time from a table that is an input of the build; the fields below are
\* the ones the crate's tests rely on.
\* ======================================================================
Field(id, name, prognr, datatype, path) ==
    [id |-> id, name |-> name, prognr |-> prognr, datatype |-> datatype, path |-> path]

\* field ids are written as their four big-endian bytes, as in Frame:
\* 0x053D19F0 = 87890416, 0x313D052F, 0x0D3D092A = 222103850.  The tests
\* give the first field's id, name, datatype and path, the second in full,
\* and of the third the id and that it is a Setting that rejects 3; what
\* they leave open is filled in here and no property depends on it.
WaterPressure ==
    Field(<<5, 61, 25, 240>>, <<"w", "a", "t", "e", "r", "_", "p", "r", "e", "s", "s", "u", "r", "e">>, 8327, DatatypeFloat(10),
          <<"s", "y", "s", "t", "e", "m", "/", "w", "a", "t", "e", "r", "_", "p", "r", "e", "s", "s", "u", "r", "e">>)
WarmwaterTemperature ==
    Field(<<49, 61, 5, 47>>, <<"w", "a", "r", "m", "w", "a", "t", "e", "r", "_", "t", "e", "m", "p", "e", "r", "a", "t", "u", "r", "e">>, 8701, DatatypeFloat(64),
          <<"t", "e", "m", "p", "e", "r", "a", "t", "u", "r", "e", "/", "w", "a", "r", "m", "w", "a", "t", "e", "r">>)
OperatingMode ==
    Field(<<13, 61, 9, 42>>, <<"o", "p", "e", "r", "a", "t", "i", "n", "g", "_", "m", "o", "d", "e">>, 1600, DatatypeSetting(2),
          <<"w", "a", "r", "m", "w", "a", "t", "e", "r", "/", "o", "p", "e", "r", "a", "t", "i", "n", "g", "_", "m", "o", "d", "e">>)
FIELDS == {WaterPressure, WarmwaterTemperature, OperatingMode}

\* Option<&'static Field>: Err("None") is None
FieldById(id) ==
    IF \E field \in FIELDS : field.id = id
    THEN Ok(CHOOSE field \in FIELDS : field.id = id)
    ELSE Err("None")

FieldByName(name) ==
    IF \E field \in FIELDS : field.name = name
    THEN Ok(CHOOSE field \in FIELDS : field.name = name)
    ELSE Err("None")

\* str::trim
IsWhitespace(ch) == ch \in {" ", "\t", "\n", "\r"}
RECURSIVE TrimStart(_)
TrimStart(text) ==
    IF text # <<>> /\ IsWhitespace(Head(text)) THEN TrimStart(Tail(text)) ELSE text
RECURSIVE TrimEnd(_)
TrimEnd(text) ==
    IF text # <<>> /\ IsWhitespace(text[Len(text)])
    THEN TrimEnd(Take(text, Len(text) - 1))
    ELSE text
Trim(text) == TrimEnd(TrimStart(text))

FieldValue(field_id, value) == [field_id |-> field_id, value |-> value]
NamedValue(name, value) == [name |-> name, value |-> value]

\* FieldValue::new
FieldValueNew(field_id, value) ==
    LET field == FieldById(field_id)
    IN  IF ~field.ok THEN Err("UnsupportedField")
        ELSE Ok(FieldValue(field.value.id, value))

\* mutant of FieldValueFromFrame: a payload the codec rejects is reported as
\* an unsupported field
FieldValueFromFrameErrorLost(f) ==
    LET field == FieldById(f.field_id)
    IN  IF ~field.ok THEN Err("UnsupportedField")
        ELSE LET value == ValueDecode(f.payload, field.value.datatype)
             IN  IF ~value.ok THEN Err("UnsupportedField")
                 ELSE Ok(FieldValue(f.field_id, value.value))

\* FieldValue::from_frame
FieldValueFromFrame(f) ==
    LET field == FieldById(f.field_id)
    IN  IF ~field.ok THEN Err("UnsupportedField")
        ELSE LET value == ValueDecode(f.payload, field.value.datatype)
             IN  IF ~value.ok THEN value ELSE Ok(FieldValue(f.field_id, value.value))

\* FieldValue::from_str
FieldValueFromStr(s, field_id) ==
    LET pieces == SplitOnce(s, ":")
        field == FieldByName(Trim(pieces.left))
    IN  IF ~pieces.found THEN Err("InvalidFieldValue")
        ELSE IF ~field.ok THEN Err("UnsupportedField")
        ELSE LET value == ValueFromStr(Trim(pieces.right), field.value.datatype)
             IN  IF ~value.ok THEN value ELSE Ok(FieldValue(field_id, value.value))

\* FieldValue::from_value_str
FieldValueFromValueStr(s, field_id) ==
    LET field == FieldById(field_id)
    IN  IF ~field.ok THEN Err("UnsupportedField")
        ELSE LET value == ValueFromStr(s, field.value.datatype)
             IN  IF ~value.ok THEN value ELSE Ok(FieldValue(field_id, value.value))

\* FieldValue::default_for_field
FieldValueDefaultForField(field) ==
    FieldValue(field.id, ValueDefaultForDatatype(field.datatype))

\* FieldValue::from_named_value
FieldValueFromNamedValue(named_value) ==
    LET field == FieldByName(named_value.name)
    IN  IF ~field.ok THEN Err("UnsupportedField")
        ELSE LET value == ValueFromStr(named_value.value, field.value.datatype)
             IN  IF ~value.ok THEN value ELSE Ok(FieldValue(field.value.id, value.value))

\* FieldValue::field; expect(..) panics on an id that is not in FIELDS
FieldValueField(fv) ==
    LET field == FieldById(fv.field_id)
    IN  IF ~field.ok THEN Err("panic") ELSE field

\* FieldValue::path
FieldValuePath(fv) ==
    LET field == FieldValueField(fv)
    IN  IF ~field.ok THEN field ELSE Ok(field.value.path)

\* Display for FieldValue: "{}: {}" of self.field() and self.value
FieldValueToString(fv) ==
    LET field == FieldValueField(fv)
    IN  IF ~field.ok THEN field
        ELSE Ok(field.value.name \o <<":", " ">> \o ValueToString(fv.value))

\* Value::set_flag
ValueSetFlag(v, new_flag) ==
    IF v.tag = "Schedule" THEN v ELSE [v EXCEPT !.flag = new_flag]

\* *field_value.value_mut() = value
FieldValueAssign(fv, value) == [fv EXCEPT !.value = value]

\* field_value.value_mut().set_flag(new_flag)
FieldValueSetFlag(fv, new_flag) == [fv EXCEPT !.value = ValueSetFlag(fv.value, new_flag)]

\* ----------------------------------------------------------------------
\* A session of FieldValue calls: a construction from sampled arguments,
\* mutations through value_mut() and the accessors that look the field up.
\* ----------------------------------------------------------------------
MaxFieldCalls == 3

UnknownFieldId == <<0, 0, 0, 4>>
FieldIdSamples == {field.id : field \in FIELDS} \cup {UnknownFieldId}
FieldValueSamples ==
    {ValueFloat(0, F32DivFactor(15, 10), 10), ValueFloat(7, F32DivFactor(0 - 15, 64), 64),
     ValueSetting(0, 1, 2), ValueSetting(0, 3, 2), ValueNumber(0, 15), ValueSchedule(<<>>)}
FramePayloadSamples == {<<>>, <<0>>, <<0, 1>>, <<0, 3>>, <<0, 0, 15>>, <<7, 255, 241, 9>>}
FrameSamples ==
    {New(dst, src, pt, fid, payload) :
        dst \in {0, 66}, src \in {0, 66}, pt \in PacketTypes, fid \in FieldIdSamples,
        payload \in FramePayloadSamples}
ValueTextSamples == {<<"1", ".", "5">>, <<" ", "1", ".", "5">>, <<"i", "n", "v", "a", "l", "i", "d">>, <<"1">>, <<"3">>, <<>>}
NameSamples == {field.name : field \in FIELDS} \cup {<<"i", "n", "v", "a", "l", "i", "d">>, <<" ", "w", "a", "t", "e", "r", "_", "p", "r", "e", "s", "s", "u", "r", "e">>}
FieldTextSamples ==
    {name \o <<":">> \o value : name \in NameSamples, value \in ValueTextSamples}
        \cup {name \o <<":", " ">> \o value : name \in NameSamples, value \in ValueTextSamples}
        \cup {<<"w", "a", "t", "e", "r", "_", "p", "r", "e", "s", "s", "u", "r", "e", " ", "1", ".", "5">>, <<"w", "a", "t", "e", "r", "_", "p", "r", "e", "s", "s", "u", "r", "e", " ", ":", " ", "1", ".", "5", " ">>, <<"w", "a", "t", "e", "r", "_", "p", "r", "e", "s", "s", "u", "r", "e", ":", " ", "1", ":", "5">>}
NamedValueSamples ==
    {NamedValue(name, value) : name \in NameSamples, value \in ValueTextSamples}

\* the calls that return a FieldValue
FieldValueMakers ==
    {"FieldValue::new", "FieldValue::from_frame", "FieldValue::from_str",
     "FieldValue::from_value_str", "FieldValue::from_named_value",
     "FieldValue::default_for_field", "value_mut = ", "value_mut.set_flag"}

\* the last call returned a FieldValue
LastGaveFieldValue ==
    /\ calls # <<>>
    /\ LastCall.op \in FieldValueMakers
    /\ LastCall.result.ok

FieldRecord(call) ==
    /\ Len(calls) < MaxFieldCalls
    /\ calls' = Append(calls, call)
    /\ UNCHANGED frameVars

\* FieldValue::new(field_id, value)
CallFieldValueNew ==
    /\ calls = <<>>
    /\ \E field_id \in FieldIdSamples, value \in FieldValueSamples :
         FieldRecord(Call("FieldValue::new", NoDatatype, field_id, value, <<>>,
                          FieldValueNew(field_id, value)))

\* FieldValue::from_frame(&frame)
CallFieldValueFromFrame ==
    /\ calls = <<>>
    /\ \E f \in FrameSamples :
         FieldRecord(Call("FieldValue::from_frame", NoDatatype, f.field_id, f, <<>>,
                          FieldValueFromFrame(f)))

\* FieldValue::from_str(s, field_id)
CallFieldValueFromStr ==
    /\ calls = <<>>
    /\ \E s \in FieldTextSamples, field_id \in FieldIdSamples :
         FieldRecord(Call("FieldValue::from_str", NoDatatype, field_id, NoValue, s,
                          FieldValueFromStr(s, field_id)))

\* FieldValue::from_value_str(s, field_id)
CallFieldValueFromValueStr ==
    /\ calls = <<>>
    /\ \E s \in ValueTextSamples, field_id \in FieldIdSamples :
         FieldRecord(Call("FieldValue::from_value_str", NoDatatype, field_id, NoValue, s,
                          FieldValueFromValueStr(s, field_id)))

\* FieldValue::from_named_value(&named_value)
CallFieldValueFromNamedValue ==
    /\ calls = <<>>
    /\ \E named_value \in NamedValueSamples :
         FieldRecord(Call("FieldValue::from_named_value", NoDatatype, <<>>, named_value,
                          <<>>, FieldValueFromNamedValue(named_value)))

\* FieldValue::default_for_field(field), of a field Field::by_id or
\* Field::iter gave
CallFieldValueDefaultForField ==
    /\ calls = <<>>
    /\ \E field \in FIELDS :
         FieldRecord(Call("FieldValue::default_for_field", field.datatype, field.id,
                          NoValue, <<>>, Ok(FieldValueDefaultForField(field))))

\* *field_value.value_mut() = value
CallFieldValueAssign ==
    /\ LastGaveFieldValue
    /\ \E value \in FieldValueSamples :
         FieldRecord(Call("value_mut = ", NoDatatype, <<>>, value, <<>>,
                          Ok(FieldValueAssign(LastCall.result.value, value))))

\* field_value.value_mut().set_flag(new_flag)
CallFieldValueSetFlag ==
    /\ LastGaveFieldValue
    /\ \E new_flag \in {1, 255} :
         FieldRecord(Call("value_mut.set_flag", NoDatatype, <<new_flag>>, NoValue, <<>>,
                          Ok(FieldValueSetFlag(LastCall.result.value, new_flag))))

\* field_value.field()
CallFieldValueField ==
    /\ LastGaveFieldValue
    /\ FieldRecord(Call("field", NoDatatype, <<>>, LastCall.result.value, <<>>,
                        FieldValueField(LastCall.result.value)))

\* field_value.path()
CallFieldValuePath ==
    /\ LastGaveFieldValue
    /\ FieldRecord(Call("path", NoDatatype, <<>>, LastCall.result.value, <<>>,
                        FieldValuePath(LastCall.result.value)))

\* field_value.to_string()
CallFieldValueToString ==
    /\ LastGaveFieldValue
    /\ FieldRecord(Call("to_string", NoDatatype, <<>>, LastCall.result.value, <<>>,
                        FieldValueToString(LastCall.result.value)))

FieldNext ==
    \/ CallFieldValueNew
    \/ CallFieldValueFromFrame
    \/ CallFieldValueFromStr
    \/ CallFieldValueFromValueStr
    \/ CallFieldValueFromNamedValue
    \/ CallFieldValueDefaultForField
    \/ CallFieldValueAssign
    \/ CallFieldValueSetFlag
    \/ CallFieldValueField
    \/ CallFieldValuePath
    \/ CallFieldValueToString

SpecField == Init /\ [][FieldNext]_vars

\* ======================================================================
\* Claims about FieldValue
\* ======================================================================

\* the FieldValue's id is in FIELDS and its value has the registered datatype
FieldValueValid(fv) ==
    /\ FieldById(fv.field_id).ok
    /\ ValueDatatype(fv.value) = FieldById(fv.field_id).value.datatype

\* C21: after any sequence of public operations (new, from_frame, from_str,
\* from_value_str, from_named_value, default_for_field, and mutation through
\* value_mut / set_flag) every existing FieldValue has a field_id in the
\* registry and a value of the datatype registered for it, and field(),
\* path() and to_string() never panic.
C21_FieldValueInvariant ==
    \A i \in 1..Len(calls) :
        /\ (calls[i].op \in FieldValueMakers /\ calls[i].result.ok)
              => FieldValueValid(calls[i].result.value)
        /\ calls[i].op \in {"field", "path", "to_string"} => calls[i].result.ok

\* the first call is FieldValue::new
FieldValueConstructed == calls # <<>> /\ calls[1].op = "FieldValue::new"

\* C22: FieldValue::new(field_id, value) fails with UnsupportedField if
\* field_id is not in the registry, fails with a datatype-mismatch error if
\* the value's tag does not match the datatype registered for field_id, and
\* succeeds otherwise.
C22_FieldValueNewErrors ==
    FieldValueConstructed =>
        LET field == FieldById(calls[1].payload)
            value == calls[1].value
            returned == calls[1].result
        IN  IF ~field.ok THEN returned = Err("UnsupportedField")
            ELSE IF value.tag # field.value.datatype.tag THEN ~returned.ok
            ELSE returned = Ok(FieldValue(calls[1].payload, value))

\* the first call is FieldValue::from_frame
FromFrame == calls # <<>> /\ calls[1].op = "FieldValue::from_frame"

\* what the claim says from_frame returns for a frame
FromFrameExpected(f) ==
    LET field == FieldById(f.field_id)
        decoded == IF field.ok THEN ValueDecode(f.payload, field.value.datatype)
                   ELSE Err("None")
    IN  IF ~field.ok THEN Err("UnsupportedField")
        ELSE IF ~decoded.ok THEN decoded
        ELSE Ok(FieldValue(f.field_id, decoded.value))

\* C23: FieldValue::from_frame(frame) returns UnsupportedField exactly when
\* frame.field_id is not in the registry, whatever the payload; otherwise it
\* returns what Value::decode(frame.payload, registered datatype) returns,
\* the error unchanged or the value paired with frame.field_id; the result
\* does not depend on packet_type or the addresses.
C23_FromFramePropagation ==
    FromFrame =>
        LET f == calls[1].value
            returned == calls[1].result
        IN  /\ returned = Err("UnsupportedField") <=> ~FieldById(f.field_id).ok
            /\ returned = FromFrameExpected(f)
            /\ \A g \in FrameSamples :
                 (g.field_id = f.field_id /\ g.payload = f.payload)
                     => FieldValueFromFrame(g) = returned

\* a frame of a known field whose payload the codec rejects
C23_Witness ==
    /\ FromFrame
    /\ FieldById(calls[1].value.field_id).ok
    /\ calls[1].result = Err("InvalidSetting")

\* ======================================================================
\* Claims about Float on the wire
\* ======================================================================

\* the two's-complement value of a 16-bit word
SignedWord(word) == IF word >= 32768 THEN word - 65536 ELSE word

\* the session decoded three bytes under Float(d), d >= 1, and encoded the
\* value again
FloatDecodedThenEncoded ==
    /\ Len(calls) >= 2
    /\ calls[1].op = "decode"
    /\ calls[1].datatype.tag = "Float"
    /\ calls[1].datatype.n >= 1
    /\ Len(calls[1].payload) = 3
    /\ calls[2].op = "encode"

\* C24: for every divisor d >= 1, flag byte and raw value r in
\* -32768..=32767, decoding [flag, hi, lo] (r as big-endian two's complement)
\* under Float(d) yields r/d, and encoding that value yields [flag, hi, lo].
C24_FloatSignedBothWays ==
    FloatDecodedThenEncoded =>
        LET payload == calls[1].payload
            d == calls[1].datatype.n
            r == SignedWord(BeU16Value(Drop(payload, 1)))
        IN  /\ calls[1].result = Ok(ValueFloat(payload[1], F32DivFactor(r, d), d))
            /\ calls[2].result.value = payload

\* 0 <= x <= 65535 for an f32 x
InU16Range(x) ==
    /\ x.kind = "finite"
    /\ \/ x.m = 0
       \/ /\ x.s = 0
          /\ x.e < 0
          /\ \/ x.e < 0 - 24
             \/ x.m \div 2^(0 - x.e) < 65535
             \/ x.m \div 2^(0 - x.e) = 65535 /\ x.m % 2^(0 - x.e) = 0

\* the integer nearest to an f32 x in that range, ties to the even integer
RoundTiesEven(x) ==
    IF x.m = 0 \/ x.e < 0 - 24 THEN 0
    ELSE LET q == x.m \div 2^(0 - x.e)
             r == x.m % 2^(0 - x.e)
             half == 2^(0 - x.e - 1)
         IN  IF r > half \/ (r = half /\ q % 2 = 1) THEN q + 1 ELSE q

\* C25: for every Float value v with factor d such that 0 <= v*d <= 65535,
\* encode writes as the 16-bit wire integer the integer nearest to v*d, ties
\* to the even integer (7.5 gives 8, 6.5 gives 6, 14.9 gives 15).
C25_FloatRoundingOnEncode ==
    \A i \in 1..Len(calls) :
        (/\ calls[i].op = "encode"
         /\ calls[i].value.tag = "Float"
         /\ calls[i].value.factor >= 1
         /\ InU16Range(F32MulFactor(calls[i].value.value, calls[i].value.factor)))
            => BeU16Value(Drop(calls[i].result.value, 1))
                   = RoundTiesEven(F32MulFactor(calls[i].value.value,
                                                calls[i].value.factor))

\* ======================================================================
\* Claims about the streaming parser
\* ======================================================================

\* C26: for every input, the empty one included, that contains no 0xDC byte
\* parse returns Incomplete, never Failure and never Ok, and reports no byte
\* as consumed.
C26_NoSofIncomplete ==
    (result # NoResult /\ \A i \in 1..Len(buffer) : buffer[i] # 220)
        => result = ParseIncomplete

\* C26 witness: a whole frame whose SOF was altered was parsed
C26_Witness ==
    /\ Len(buffer) >= 11
    /\ \A i \in 1..Len(buffer) : buffer[i] # 220
    /\ result.kind = "Incomplete"

\* C27: whenever parse(input) returns Ok{frame, rest}, input equals
\* g ++ frame.serialize() ++ rest, where g is the leading run of bytes up to
\* the first 0xDC and contains no 0xDC.
C27_SerializeInvertsParse ==
    result.kind = "Ok" =>
        LET g == SubSeq(buffer, 1, Len(buffer) - Len(StripGarbage(buffer)))
        IN  /\ \A i \in 1..Len(g) : g[i] # 220
            /\ buffer = g \o Serialize(result.frame) \o result.rest

\* C27 witness: a Get frame behind garbage was returned, with bytes left over
C27_Witness ==
    /\ result.kind = "Ok"
    /\ result.frame.packet_type = Get
    /\ buffer[1] # SOF
    /\ result.rest # <<>>

\* bytes appended to the buffer: the next byte on the bus, all that is on
\* the bus, and single bytes
Appended ==
    {Take(wire, n) : n \in {0, 1, Len(wire)} \cap 0..Len(wire)}
        \cup {<<0>>, <<220>>, <<255>>}

\* C28: if parse(p) = Ok{frame, rest} then parse(p ++ s) = Ok{frame, rest ++ s}
\* and if parse(p) = Failure{error, rest} then parse(p ++ s) =
\* Failure{error, rest ++ s}, for all byte sequences s.
C28_StableUnderAppending ==
    result.kind \in {"Ok", "Failure"} =>
        \A s \in Appended :
            LET r == Parse(buffer \o s)
            IN  /\ r.kind = result.kind
                /\ r.frame = result.frame
                /\ r.error = result.error
                /\ r.rest = result.rest \o s

\* C28 witness: a Failure with a rest while bytes were still on the bus
C28_Witness ==
    /\ result.kind = "Failure"
    /\ result.rest # <<>>
    /\ wire # <<>>

\* C29: if the input contains an SOF and at least 69 bytes are available
\* from the first SOF on, parse does not return Incomplete.
C29_BoundedWait ==
    (result # NoResult /\ HasSOF(buffer) /\ Len(StripGarbage(buffer)) >= 69)
        => result.kind # "Incomplete"

\* C29 witness: exactly 69 bytes from the SOF on were parsed
C29_Witness ==
    /\ result # NoResult
    /\ HasSOF(buffer)
    /\ Len(StripGarbage(buffer)) = 69
    /\ result.kind = "Ok"

\* ----------------------------------------------------------------------
\* The session with a damaged checksum: two frames are on the bus and,
\* before the receiver reads anything, the two CRC bytes of the first are
\* replaced by wrong ones.
\* ----------------------------------------------------------------------

\* sampled values of a wrong CRC byte, besides the right one
WrongCrcBytes == {0, 220}

CorruptChecksum ==
    /\ ~corrupted
    /\ Len(sent) = 2
    /\ frame = NoFrame
    /\ buffer = <<>>
    /\ result = NoResult
    /\ got = <<>>
    /\ Len(wire) = Len(Serialize(sent[1])) + Len(Serialize(sent[2]))
    /\ LET L == Len(Serialize(sent[1]))
       IN  \E hi \in WrongCrcBytes \cup {wire[L - 1]}, lo \in WrongCrcBytes \cup {wire[L]} :
             /\ <<hi, lo>> # <<wire[L - 1], wire[L]>>
             /\ wire' = [wire EXCEPT ![L - 1] = hi, ![L] = lo]
    /\ corrupted' = TRUE
    /\ UNCHANGED <<frame, buffer, result, sent, got, garbage, calls>>

RecoveryNext ==
    \/ BusNewGet
    \/ BusNewSet
    \/ SerializeFrame
    \/ CorruptChecksum
    \/ Deliver
    \/ ParseBuffer
    \/ Advance

SpecRecovery == Init /\ [][RecoveryNext]_vars

\* the bus carried a frame with wrong CRC bytes followed by a well-formed one
ChecksumDamaged == corrupted /\ Len(sent) = 2

\* C30: if the input is c ++ s, c a complete frame whose only defect is two
\* wrong CRC bytes and s the serialization of a well-formed frame f, then
\* parse(input) is Failure{ChecksumError, rest}, and continuing with the rest
\* (repeating on any further Failure's rest) returns Ok with frame f, whatever
\* the values of the wrong CRC bytes.
C30_RecoveryAfterChecksumFailure ==
    ChecksumDamaged =>
        /\ (/\ result # NoResult
            /\ got = <<>>
            /\ Len(buffer) = Len(Serialize(sent[1])) + Len(Serialize(sent[2])))
              => (result.kind = "Failure" /\ result.error = "ChecksumError")
        /\ (wire = <<>> /\ result.kind = "Incomplete") => got = <<sent[2]>>

====
